---- MODULE Spec2Model ----
(***************************************************************************)
(* go-zed-tasks: discovery of the tests of one Go file and reconciliation  *)
(* of the generated entries with the tasks / debug documents on disk.      *)
(*                                                                         *)
(* Go strings are modelled as sequences of one-character strings, so that  *)
(* prefix tests, splitting at '/', byte-wise sorting and concatenation are *)
(* computed the way the code computes them.  A JSON document that holds    *)
(* entries is modelled by its decoded value, a sequence of entries         *)
(* (records); a file without entries is modelled by its bytes, and the     *)
(* relaxed-JSON scanners work on bytes.                                    *)
(***************************************************************************)
EXTENDS Naturals, Sequences, FiniteSets, TLC

VARIABLES
    tasksFile,  \* the tasks document on disk (cfg.TasksPath)
    debugFile,  \* the debug document on disk (cfg.DebugPath)
    inv,        \* what the last invocation (or mergeTasks call) read, computed and reported
    sel,        \* the inputs and the outcome of the last test selection
    bridge,     \* the discovery subprocess and runGenerate waiting for its output
    relaxed     \* the bytes given to normalizeRelaxedJSON and what it returned

vars == <<tasksFile, debugFile, inv, sel, bridge, relaxed>>

(***************************************************************************)
(* Bounds of the model.                                                    *)
(***************************************************************************)
\* longest hand-edited document the merge is applied to
MaxDocLen == 3
\* longest event stream the discovery subprocess emits
MaxStreamLen == 2
\* number of invocations in a sequence
MaxRuns == 2
\* longest byte string given to normalizeRelaxedJSON
MaxJsonLen == 5
\* how long the clock runs while the discovery subprocess is observed
MaxClock == 4

\* longest test name drawn over NameChars
MaxNameLen == 3
\* longest list of extra go test arguments
MaxArgs == 2
\* most top-level declarations of a source file
MaxDecls == 3

(***************************************************************************)
(* Strings.                                                                *)
(***************************************************************************)
\* the printable ASCII characters in byte order, from 32 (space) to 126 (~);
\* byte 96 (the grave accent) is never used and only holds its place
Ascii ==
    <<" ", "!", "\"", "#", "$", "%", "&", "'", "(", ")", "*", "+", ",", "-", ".", "/",
      "0", "1", "2", "3", "4", "5", "6", "7", "8", "9", ":", ";", "<", "=", ">", "?",
      "@", "A", "B", "C", "D", "E", "F", "G", "H", "I", "J", "K", "L", "M", "N", "O",
      "P", "Q", "R", "S", "T", "U", "V", "W", "X", "Y", "Z", "[", "\\", "]", "^", "_",
      "(grave)", "a", "b", "c", "d", "e", "f", "g", "h", "i", "j", "k", "l", "m", "n", "o",
      "p", "q", "r", "s", "t", "u", "v", "w", "x", "y", "z", "{", "|", "}", "~">>

\* the elements of a sequence
Range(s) == {s[i] : i \in 1..Len(s)}

\* the byte value of every character the model uses
ByteTable ==
    [c \in Range(Ascii) \cup {"\t", "\n", "\r"} |->
        IF c = "\t" THEN 9
        ELSE IF c = "\n" THEN 10
        ELSE IF c = "\r" THEN 13
        ELSE 31 + (CHOOSE i \in 1..Len(Ascii) : Ascii[i] = c)]

\* the byte value of a character
ByteOf(c) == ByteTable[c]

\* Go's s < t on strings: byte-wise lexicographic order
RECURSIVE StrLess(_, _)
StrLess(s, t) ==
    IF t = <<>> THEN FALSE
    ELSE IF s = <<>> THEN TRUE
    ELSE IF Head(s) = Head(t) THEN StrLess(Tail(s), Tail(t))
    ELSE ByteOf(Head(s)) < ByteOf(Head(t))

\* strings.HasPrefix
HasPrefix(s, p) == Len(s) >= Len(p) /\ SubSeq(s, 1, Len(p)) = p

\* insertion of one string into a sorted sequence (used by SortStrings)
RECURSIVE InsertSorted(_, _)
InsertSorted(sorted, s) ==
    IF sorted = <<>> THEN <<s>>
    ELSE IF StrLess(s, Head(sorted)) THEN <<s>> \o sorted
    ELSE <<Head(sorted)>> \o InsertSorted(Tail(sorted), s)

\* sort.Strings: ascending byte order
RECURSIVE SortStrings(_)
SortStrings(ss) ==
    IF ss = <<>> THEN <<>>
    ELSE InsertSorted(SortStrings(Tail(ss)), Head(ss))

\* strings.Split(s, "/"): the segments between the slashes
RECURSIVE SplitSlash(_, _)
SplitSlash(s, cur) ==
    IF s = <<>> THEN <<cur>>
    ELSE IF Head(s) = "/" THEN <<cur>> \o SplitSlash(Tail(s), <<>>)
    ELSE SplitSlash(Tail(s), Append(cur, Head(s)))

\* strings.Join(segments, "/")
RECURSIVE JoinSlash(_)
JoinSlash(segs) ==
    IF segs = <<>> THEN <<>>
    ELSE IF Len(segs) = 1 THEN segs[1]
    ELSE segs[1] \o <<"/">> \o JoinSlash(Tail(segs))

\* the characters regexp.QuoteMeta escapes
RegexpSpecial == {"\\", ".", "+", "*", "?", "(", ")", "|", "[", "]", "{", "}", "^", "$"}

\* regexp.QuoteMeta: a backslash before every special character
RECURSIVE QuoteMeta(_)
QuoteMeta(s) ==
    IF s = <<>> THEN <<>>
    ELSE (IF Head(s) \in RegexpSpecial THEN <<"\\", Head(s)>> ELSE <<Head(s)>>)
         \o QuoteMeta(Tail(s))

(***************************************************************************)
(* Configuration (type Config, the defaults of the env tags).              *)
(***************************************************************************)
\* "go:"
LabelPrefix == <<"g", "o", ":">>
\* "go:debug:"
DebugLabelPrefix == <<"g", "o", ":", "d", "e", "b", "u", "g", ":">>
\* "go"
GoBinary == <<"g", "o">>
\* "^Test": the name matches when it starts with Test
TestNameRegex == <<"T", "e", "s", "t">>
\* "1"
GeneratedEnvValue == <<"1">>

(***************************************************************************)
(* Names used by the inputs of the model.                                  *)
(***************************************************************************)
TestAlpha == <<"T", "e", "s", "t", "A", "l", "p", "h", "a">>
TestBeta == <<"T", "e", "s", "t", "B", "e", "t", "a">>
TestGamma == <<"T", "e", "s", "t", "G", "a", "m", "m", "a">>
TestOld == <<"T", "e", "s", "t", "O", "l", "d">>
TestOther == <<"T", "e", "s", "t", "O", "t", "h", "e", "r">>
\* "TestAlpha/case1"
TestAlphaCase1 == TestAlpha \o <<"/", "c", "a", "s", "e", "1">>
\* "TestOther/sub"
TestOtherSub == TestOther \o <<"/", "s", "u", "b">>
\* "helper"
HelperName == <<"h", "e", "l", "p", "e", "r">>
\* "my-build"
MyBuild == <<"m", "y", "-", "b", "u", "i", "l", "d">>
\* "a_test.go", "b_test.go"
FileA == <<"a", "_", "t", "e", "s", "t", ".", "g", "o">>
FileB == <<"b", "_", "t", "e", "s", "t", ".", "g", "o">>
\* the package argument of a file in the workspace root
PkgDot == <<".">>

(***************************************************************************)
(* Entries of a document.  An entry is an arbitrary JSON object; the model *)
(* keeps what the code inspects (the label, the env sub-map and its marker *)
(* key) and the rest of the content as name, file, kind and args.          *)
(*   hasLabel : task["label"] is a string                                  *)
(*   env      : "absent" (no env key), "notmap" (env is no object), "map"  *)
(*   gen      : "absent" (no marker key), "nonstring", "str"               *)
(*   genVal   : the marker key's value when it is a string                 *)
(***************************************************************************)
UserEntry(label, hasLabel, env, gen, genVal) ==
    [hasLabel |-> hasLabel, label |-> label, kind |-> "user", command |-> <<>>,
     args |-> <<>>, env |-> env, gen |-> gen, genVal |-> genVal,
     name |-> <<>>, file |-> <<>>]

\* variant: the segments are escaped and opened with ^ but not closed with $
runPatternForTestName_NoEndAnchor(testName) ==
    IF testName = <<>> THEN <<"^">>
    ELSE LET segments == SplitSlash(testName, <<>>)
             anchored == [i \in 1..Len(segments) |->
                             <<"^">> \o QuoteMeta(segments[i])]
         IN  JoinSlash(anchored)

\* the run-selector of a test name: every segment escaped and anchored
runPatternForTestName(testName) ==
    IF testName = <<>> THEN <<"^", "$">>
    ELSE LET segments == SplitSlash(testName, <<>>)
             anchored == [i \in 1..Len(segments) |->
                             <<"^">> \o QuoteMeta(segments[i]) \o <<"$">>]
         IN  JoinSlash(anchored)

\* one task per test name, in the order of testNames
makeGeneratedTasks(testNames, pkgArg, relFilePath, extraGoTestArgs) ==
    [i \in 1..Len(testNames) |->
        [hasLabel |-> TRUE,
         label |-> LabelPrefix \o testNames[i],
         kind |-> "task",
         command |-> GoBinary,
         args |-> <<<<"t", "e", "s", "t">>>> \o extraGoTestArgs
                  \o <<pkgArg, <<"-", "r", "u", "n">>, runPatternForTestName(testNames[i])>>,
         env |-> "map", gen |-> "str", genVal |-> GeneratedEnvValue,
         name |-> testNames[i], file |-> relFilePath]]

\* go test arguments translated for the debugger
RECURSIVE normalizeGoTestArgsForDelve(_)
normalizeGoTestArgsForDelve(args) ==
    IF args = <<>> THEN <<>>
    ELSE LET arg == Head(args)
             rest == normalizeGoTestArgsForDelve(Tail(args))
         IN  IF arg = <<"-", "v">> THEN <<<<"-", "t", "e", "s", "t", ".", "v">>>> \o rest
             ELSE IF arg = <<"-", "c", "o", "u", "n", "t">> THEN rest
             ELSE IF HasPrefix(arg, <<"-", "c", "o", "u", "n", "t", "=">>)
                  THEN <<<<"-", "t", "e", "s", "t", ".">> \o Tail(arg)>> \o rest
             ELSE <<arg>> \o rest

\* one debug configuration per test name, in the order of testNames
makeGeneratedDebugConfigs(testNames, pkgArg, relFilePath, extraGoTestArgs) ==
    [i \in 1..Len(testNames) |->
        [hasLabel |-> TRUE,
         label |-> DebugLabelPrefix \o testNames[i],
         kind |-> "debug",
         command |-> pkgArg,
         args |-> normalizeGoTestArgsForDelve(extraGoTestArgs)
                  \o <<<<"-", "t", "e", "s", "t", ".", "r", "u", "n">>,
                       runPatternForTestName(testNames[i])>>,
         env |-> "map", gen |-> "str", genVal |-> GeneratedEnvValue,
         name |-> testNames[i], file |-> relFilePath]]

\* whether an entry carries the marker key with the marker value
isGenerated(task) ==
    IF task.env = "absent" THEN FALSE
    ELSE IF task.env # "map" THEN FALSE
    ELSE IF task.gen = "absent" THEN FALSE
    ELSE IF task.gen # "str" THEN FALSE
    ELSE task.genVal = GeneratedEnvValue

\* the white space strings.TrimSpace, bytes.TrimSpace and strings.Fields cut at
IsSpace(ch) == ch = " " \/ ch = "\t" \/ ch = "\n" \/ ch = "\r"

\* strings.TrimSpace and bytes.TrimSpace
RECURSIVE TrimLeft(_)
TrimLeft(s) ==
    IF s # <<>> /\ IsSpace(Head(s)) THEN TrimLeft(Tail(s)) ELSE s

RECURSIVE TrimRight(_)
TrimRight(s) ==
    IF s # <<>> /\ IsSpace(s[Len(s)]) THEN TrimRight(SubSeq(s, 1, Len(s) - 1))
    ELSE s

TrimSpace(s) == TrimRight(TrimLeft(s))

(***************************************************************************)
(* Documents on disk.  kind is "absent" (no file), "raw" (a file given by  *)
(* its bytes) or "json" (a file holding an array of entries, given by the  *)
(* value it decodes to).                                                   *)
(***************************************************************************)
AbsentFile == [kind |-> "absent", entries |-> <<>>]
RawFile(bytes) == [kind |-> "raw", entries |-> <<>>, bytes |-> bytes]
JsonFile(entries) == [kind |-> "json", entries |-> entries]

\* a file of no bytes
EmptyFile == RawFile(<<>>)
\* a file of white space only
BlankFile == RawFile(<<" ", "\n", "\t", "\r", "\n">>)
\* ["a  : the string is not closed
MalformedFile == RawFile(<<"[", "\"", "a">>)
\* an empty array with a comment and a trailing line feed
CommentedFile == RawFile(<<"[", " ", "/", "/", "x", "\n", "]", "\n">>)
\* a JSON number, which is no array of objects
NumberFile == RawFile(<<"1">>)

(***************************************************************************)
(* Relaxed JSON.  The bytes of a document are a sequence of one-character  *)
(* strings; the scanners are the loops of the code, with the index i and   *)
(* the flags inString / escape / inLineComment / inBlockComment held in    *)
(* mode ("code" when no flag is set; "escape" is inString with escape).    *)
(***************************************************************************)
\* the bytes of data at the indices of K, from index i on, in order
RECURSIVE KeepFrom(_, _, _)
KeepFrom(data, K, i) ==
    IF i > Len(data) THEN <<>>
    ELSE (IF i \in K THEN <<data[i]>> ELSE <<>>) \o KeepFrom(data, K, i + 1)

\* isJSONWhitespace without the line feed
isJSONWhitespace_NoNewline(ch) == ch = " " \/ ch = "\t" \/ ch = "\r"

isJSONWhitespace(ch) == ch = " " \/ ch = "\t" \/ ch = "\n" \/ ch = "\r"

\* the loop of stripJSONComments from index i on
RECURSIVE scanComments(_, _, _, _)
scanComments(data, i, mode, out) ==
    IF i > Len(data) THEN [mode |-> mode, out |-> out]
    ELSE LET ch == data[i]
         IN  IF mode = "inLineComment"
             THEN IF ch = "\n" THEN scanComments(data, i + 1, "code", Append(out, ch))
                  ELSE scanComments(data, i + 1, mode, out)
             ELSE IF mode = "inBlockComment"
             THEN IF ch = "*" /\ i + 1 <= Len(data) /\ data[i + 1] = "/"
                  THEN scanComments(data, i + 2, "code", out)
                  ELSE scanComments(data, i + 1, mode, out)
             ELSE IF mode = "escape"
             THEN scanComments(data, i + 1, "inString", Append(out, ch))
             ELSE IF mode = "inString"
             THEN IF ch = "\\" THEN scanComments(data, i + 1, "escape", Append(out, ch))
                  ELSE IF ch = "\"" THEN scanComments(data, i + 1, "code", Append(out, ch))
                  ELSE scanComments(data, i + 1, mode, Append(out, ch))
             ELSE IF ch = "\"" THEN scanComments(data, i + 1, "inString", Append(out, ch))
             ELSE IF ch = "/" /\ i + 1 <= Len(data) /\ data[i + 1] = "/"
             THEN scanComments(data, i + 2, "inLineComment", out)
             ELSE IF ch = "/" /\ i + 1 <= Len(data) /\ data[i + 1] = "*"
             THEN scanComments(data, i + 2, "inBlockComment", out)
             ELSE scanComments(data, i + 1, mode, Append(out, ch))

\* stripJSONComments without the test of inString after the loop
stripJSONComments_IgnoresOpenString(data) ==
    LET r == scanComments(data, 1, "code", <<>>)
    IN  IF r.mode = "inBlockComment"
        THEN [err |-> "unterminated block comment in tasks file", out |-> <<>>]
        ELSE [err |-> "", out |-> r.out]

\* the bytes without the comments, or the error of an open comment or string
stripJSONComments(data) ==
    LET r == scanComments(data, 1, "code", <<>>)
    IN  IF r.mode = "inBlockComment"
        THEN [err |-> "unterminated block comment in tasks file", out |-> <<>>]
        ELSE IF r.mode \in {"inString", "escape"}
        THEN [err |-> "unterminated string in tasks file", out |-> <<>>]
        ELSE [err |-> "", out |-> r.out]

\* the inner loop of stripTrailingCommas: the first index from j on that
\* holds no white space
RECURSIVE skipWhitespace(_, _)
skipWhitespace(data, j) ==
    IF j <= Len(data) /\ isJSONWhitespace(data[j]) THEN skipWhitespace(data, j + 1)
    ELSE j

\* the loop of stripTrailingCommas from index i on
RECURSIVE scanCommas(_, _, _, _)
scanCommas(data, i, mode, out) ==
    IF i > Len(data) THEN out
    ELSE LET ch == data[i]
             j == skipWhitespace(data, i + 1)
         IN  IF mode = "escape"
             THEN scanCommas(data, i + 1, "inString", Append(out, ch))
             ELSE IF mode = "inString"
             THEN IF ch = "\\" THEN scanCommas(data, i + 1, "escape", Append(out, ch))
                  ELSE IF ch = "\"" THEN scanCommas(data, i + 1, "code", Append(out, ch))
                  ELSE scanCommas(data, i + 1, mode, Append(out, ch))
             ELSE IF ch = "\"" THEN scanCommas(data, i + 1, "inString", Append(out, ch))
             ELSE IF ch = "," /\ j <= Len(data) /\ data[j] \in {"}", "]"}
             THEN scanCommas(data, i + 1, mode, out)
             ELSE scanCommas(data, i + 1, mode, Append(out, ch))

\* stripTrailingCommas without the tracking of string literals
stripTrailingCommas_NoStrings(data) ==
    KeepFrom(data, {k \in DOMAIN data :
                      ~(/\ data[k] = ","
                        /\ skipWhitespace(data, k + 1) <= Len(data)
                        /\ data[skipWhitespace(data, k + 1)] \in {"}", "]"})}, 1)

stripTrailingCommas(data) == scanCommas(data, 1, "code", <<>>)

normalizeRelaxedJSON(data) ==
    LET withoutComments == stripJSONComments(data)
    IN  IF withoutComments.err # "" THEN withoutComments
        ELSE [err |-> "", out |-> stripTrailingCommas(withoutComments.out)]

\* json.Unmarshal of the bytes of a raw file into []map[string]any: the raw
\* files of the model hold no array but the empty one
jsonUnmarshal(normalized) ==
    IF KeepFrom(normalized, {k \in DOMAIN normalized : ~isJSONWhitespace(normalized[k])}, 1)
         = <<"[", "]">>
    THEN [err |-> FALSE, tasks |-> <<>>]
    ELSE [err |-> TRUE, tasks |-> <<>>]

\* readTasks taking a file without content for a document that is no JSON
readTasks_RejectsBlank(file) ==
    IF file.kind = "absent" THEN [err |-> FALSE, tasks |-> <<>>]
    ELSE IF file.kind = "json" THEN [err |-> FALSE, tasks |-> file.entries]
    ELSE LET normalized == normalizeRelaxedJSON(file.bytes)
         IN  IF normalized.err # "" THEN [err |-> TRUE, tasks |-> <<>>]
             ELSE jsonUnmarshal(normalized.out)

\* the entries of a document, or an error
readTasks(file) ==
    IF file.kind = "absent" THEN [err |-> FALSE, tasks |-> <<>>]
    ELSE IF file.kind = "json" THEN [err |-> FALSE, tasks |-> file.entries]
    ELSE LET data == TrimSpace(file.bytes)
             normalized == normalizeRelaxedJSON(data)
         IN  IF Len(data) = 0 THEN [err |-> FALSE, tasks |-> <<>>]
             ELSE IF normalized.err # "" THEN [err |-> TRUE, tasks |-> <<>>]
             ELSE jsonUnmarshal(normalized.out)

\* os.WriteFile of the serialized entries: the whole file is replaced
writeTasks(entries) == JsonFile(entries)

(***************************************************************************)
(* The merge engine.                                                       *)
(***************************************************************************)
\* pruneExisting with the pruning switched off: nothing is dropped
pruneExisting_KeepsAll(existing, prune) == [filtered |-> existing, removed |-> 0]

\* pruneExisting without the removed++ of the loop
RECURSIVE pruneExisting_NoCount(_, _)
pruneExisting_NoCount(existing, prune) ==
    IF existing = <<>> THEN [filtered |-> <<>>, removed |-> 0]
    ELSE LET rest == pruneExisting_NoCount(Tail(existing), prune)
         IN  IF prune /\ isGenerated(Head(existing))
             THEN [filtered |-> rest.filtered, removed |-> rest.removed]
             ELSE [filtered |-> <<Head(existing)>> \o rest.filtered,
                   removed |-> rest.removed]

\* the first loop of mergeTasks: the entries kept and the number dropped
RECURSIVE pruneExisting(_, _)
pruneExisting(existing, prune) ==
    IF existing = <<>> THEN [filtered |-> <<>>, removed |-> 0]
    ELSE LET rest == pruneExisting(Tail(existing), prune)
         IN  IF prune /\ isGenerated(Head(existing))
             THEN [filtered |-> rest.filtered, removed |-> rest.removed + 1]
             ELSE [filtered |-> <<Head(existing)>> \o rest.filtered,
                   removed |-> rest.removed]

\* m[k] = v on a Go map
MapPut(m, k, v) == [x \in (DOMAIN m) \cup {k} |-> IF x = k THEN v ELSE m[x]]

\* indexLabels keeping the first index of a label instead of the last
RECURSIVE indexLabels_First(_, _, _)
indexLabels_First(filtered, i, labelIndex) ==
    IF i > Len(filtered) THEN labelIndex
    ELSE indexLabels_First(filtered, i + 1,
                           IF filtered[i].hasLabel /\ filtered[i].label \notin DOMAIN labelIndex
                           THEN MapPut(labelIndex, filtered[i].label, i)
                           ELSE labelIndex)

\* the second loop of mergeTasks: label -> index of the last entry with that
\* label, over the entries whose label is a string
RECURSIVE indexLabels(_, _, _)
indexLabels(filtered, i, labelIndex) ==
    IF i > Len(filtered) THEN labelIndex
    ELSE indexLabels(filtered, i + 1,
                     IF filtered[i].hasLabel
                     THEN MapPut(labelIndex, filtered[i].label, i)
                     ELSE labelIndex)

\* upsertGenerated counting a replacement as an addition
RECURSIVE upsertGenerated_CountsAdded(_, _, _, _, _)
upsertGenerated_CountsAdded(filtered, labelIndex, generated, added, updated) ==
    IF generated = <<>>
    THEN [tasks |-> filtered, added |-> added, updated |-> updated]
    ELSE LET task == Head(generated)
             label == task.label
         IN  IF label \in DOMAIN labelIndex
             THEN upsertGenerated_CountsAdded([filtered EXCEPT ![labelIndex[label]] = task],
                                              labelIndex, Tail(generated), added + 1, updated)
             ELSE upsertGenerated_CountsAdded(Append(filtered, task),
                                              MapPut(labelIndex, label, Len(filtered) + 1),
                                              Tail(generated), added + 1, updated)

\* upsertGenerated putting a new entry in front instead of at the end
RECURSIVE upsertGenerated_PrependsNew(_, _, _, _, _)
upsertGenerated_PrependsNew(filtered, labelIndex, generated, added, updated) ==
    IF generated = <<>>
    THEN [tasks |-> filtered, added |-> added, updated |-> updated]
    ELSE LET task == Head(generated)
             label == task.label
         IN  IF label \in DOMAIN labelIndex
             THEN upsertGenerated_PrependsNew([filtered EXCEPT ![labelIndex[label]] = task],
                                              labelIndex, Tail(generated), added, updated + 1)
             ELSE upsertGenerated_PrependsNew(<<task>> \o filtered,
                                              [l \in DOMAIN labelIndex |-> labelIndex[l] + 1],
                                              Tail(generated), added + 1, updated)

\* upsertGenerated without the lookup in labelIndex: every entry is appended
RECURSIVE upsertGenerated_AlwaysAppends(_, _, _, _, _)
upsertGenerated_AlwaysAppends(filtered, labelIndex, generated, added, updated) ==
    IF generated = <<>>
    THEN [tasks |-> filtered, added |-> added, updated |-> updated]
    ELSE upsertGenerated_AlwaysAppends(Append(filtered, Head(generated)), labelIndex,
                                       Tail(generated), added + 1, updated)

\* the third loop of mergeTasks: replace at the indexed position, or append
RECURSIVE upsertGenerated(_, _, _, _, _)
upsertGenerated(filtered, labelIndex, generated, added, updated) ==
    IF generated = <<>>
    THEN [tasks |-> filtered, added |-> added, updated |-> updated]
    ELSE LET task == Head(generated)
             label == task.label
         IN  IF label \in DOMAIN labelIndex
             THEN upsertGenerated([filtered EXCEPT ![labelIndex[label]] = task],
                                  labelIndex, Tail(generated), added, updated + 1)
             ELSE upsertGenerated(Append(filtered, task),
                                  MapPut(labelIndex, label, Len(filtered) + 1),
                                  Tail(generated), added + 1, updated)

\* mergeEntries without the label index: every generated entry is appended
mergeEntries_AppendsAll(existing, generated, prune) ==
    LET p == pruneExisting(existing, prune)
    IN  [tasks |-> p.filtered \o generated,
         stats |-> [Added |-> Len(generated), Updated |-> 0, Removed |-> p.removed]]

\* mergeTasks on the entries already read
mergeEntries(existing, generated, prune) ==
    LET p == pruneExisting(existing, prune)
        u == upsertGenerated(p.filtered, indexLabels(p.filtered, 1, <<>>),
                             generated, 0, 0)
    IN  [tasks |-> u.tasks,
         stats |-> [Added |-> u.added, Updated |-> u.updated, Removed |-> p.removed]]

NoStats == [Added |-> 0, Updated |-> 0, Removed |-> 0]

\* mergeTasks that never prunes, whatever cfg.PruneGenerated says
mergeTasks_IgnoresPrune(file, generated, prune) ==
    LET rd == readTasks(file)
    IN  IF rd.err THEN [err |-> TRUE, tasks |-> <<>>, stats |-> NoStats]
        ELSE LET m == mergeEntries(rd.tasks, generated, FALSE)
             IN  [err |-> FALSE, tasks |-> m.tasks, stats |-> m.stats]

\* mergeTasks(tasksPath, generated, cfg): read, prune, upsert
mergeTasks(file, generated, prune) ==
    LET rd == readTasks(file)
    IN  IF rd.err THEN [err |-> TRUE, tasks |-> <<>>, stats |-> NoStats]
        ELSE LET m == mergeEntries(rd.tasks, generated, prune)
             IN  [err |-> FALSE, tasks |-> m.tasks, stats |-> m.stats]

\* clearGenerated with the test inverted: the generated entries are kept
RECURSIVE clearGenerated_Inverted(_)
clearGenerated_Inverted(existing) ==
    IF existing = <<>> THEN [filtered |-> <<>>, removed |-> 0]
    ELSE LET rest == clearGenerated_Inverted(Tail(existing))
         IN  IF ~isGenerated(Head(existing))
             THEN [filtered |-> rest.filtered, removed |-> rest.removed + 1]
             ELSE [filtered |-> <<Head(existing)>> \o rest.filtered,
                   removed |-> rest.removed]

\* the loop of runClear: the entries kept and the number dropped
RECURSIVE clearGenerated(_)
clearGenerated(existing) ==
    IF existing = <<>> THEN [filtered |-> <<>>, removed |-> 0]
    ELSE LET rest == clearGenerated(Tail(existing))
         IN  IF isGenerated(Head(existing))
             THEN [filtered |-> rest.filtered, removed |-> rest.removed + 1]
             ELSE [filtered |-> <<Head(existing)>> \o rest.filtered,
                   removed |-> rest.removed]

(***************************************************************************)
(* Static extraction and the toolchain bridge.                             *)
(*   a source file : [path, parses, decls], a declaration [func, recv,     *)
(*                   name] (func: a function declaration; recv: it has a   *)
(*                   receiver)                                             *)
(*   a subprocess  : [exitErr, lines], its exit status and combined output *)
(***************************************************************************)
\* namePattern.MatchString(name) for the pattern ^Test
matchesTestName(name) == HasPrefix(name, TestNameRegex)

\* variant: a function with a receiver is collected like any other function
RECURSIVE collectTestNames_KeepsMethods(_, _)
collectTestNames_KeepsMethods(decls, names) ==
    IF decls = <<>> THEN names
    ELSE LET d == Head(decls)
         IN  IF ~d.func THEN collectTestNames_KeepsMethods(Tail(decls), names)
             ELSE IF ~matchesTestName(d.name)
                  THEN collectTestNames_KeepsMethods(Tail(decls), names)
             ELSE IF d.name \in Range(names)
                  THEN collectTestNames_KeepsMethods(Tail(decls), names)
             ELSE collectTestNames_KeepsMethods(Tail(decls), Append(names, d.name))

\* the loop of findTestsInFile over parsed.Decls
RECURSIVE collectTestNames(_, _)
collectTestNames(decls, names) ==
    IF decls = <<>> THEN names
    ELSE LET d == Head(decls)
         IN  IF ~d.func \/ d.recv THEN collectTestNames(Tail(decls), names)
             ELSE IF ~matchesTestName(d.name) THEN collectTestNames(Tail(decls), names)
             ELSE IF d.name \in Range(names) THEN collectTestNames(Tail(decls), names)
             ELSE collectTestNames(Tail(decls), Append(names, d.name))

\* the names of the file's test functions, in declaration order
findTestsInFile(src) ==
    IF ~src.parses THEN [err |-> TRUE, names |-> <<>>]
    ELSE [err |-> FALSE, names |-> collectTestNames(src.decls, <<>>)]

\* strings.Fields(line)[0] of a trimmed, non-empty line
RECURSIVE FirstField(_)
FirstField(s) ==
    IF s = <<>> \/ IsSpace(Head(s)) THEN <<>>
    ELSE <<Head(s)>> \o FirstField(Tail(s))

IsLetter(c) ==
    \/ ByteOf(c) \in 65..90
    \/ ByteOf(c) \in 97..122
    \/ c = "_"

IsDigit(c) == ByteOf(c) \in 48..57

\* identPattern ^[A-Za-z_][A-Za-z0-9_]*$
identPattern(name) ==
    /\ name # <<>>
    /\ IsLetter(name[1])
    /\ \A i \in 2..Len(name) : IsLetter(name[i]) \/ IsDigit(name[i])

\* the loop of listTestsWithGo over the lines of the output
RECURSIVE collectListed(_)
collectListed(lines) ==
    IF lines = <<>> THEN {}
    ELSE LET line == TrimSpace(Head(lines))
             rest == collectListed(Tail(lines))
         IN  IF \/ line = <<>>
                \/ HasPrefix(line, <<"o", "k", " ">>)
                \/ HasPrefix(line, <<"?", " ">>)
                \/ HasPrefix(line, <<"P", "A", "S", "S">>)
                \/ HasPrefix(line, <<"F", "A", "I", "L">>)
             THEN rest
             ELSE IF ~identPattern(FirstField(line)) THEN rest
             ELSE rest \cup {FirstField(line)}

\* the names go test -list prints, or an error when it exits with failure
listTestsWithGo(proc) ==
    IF proc.exitErr THEN [err |-> TRUE, names |-> {}]
    ELSE [err |-> FALSE, names |-> collectListed(proc.lines)]

\* intersectTests without the lookup in listed
intersectTests_NoFilter(fileTests, listed) == fileTests

\* the names of fileTests that are listed, in the order of fileTests
RECURSIVE intersectTests(_, _)
intersectTests(fileTests, listed) ==
    IF fileTests = <<>> THEN <<>>
    ELSE (IF Head(fileTests) \in listed THEN <<Head(fileTests)>> ELSE <<>>)
         \o intersectTests(Tail(fileTests), listed)

\* collectRunEvents taking the Test of every event, whatever its Action
RECURSIVE collectRunEvents_AnyAction(_)
collectRunEvents_AnyAction(lines) ==
    IF lines = <<>> THEN {}
    ELSE LET line == Head(lines)
             rest == collectRunEvents_AnyAction(Tail(lines))
         IN  IF line.kind = "blank" THEN rest
             ELSE IF line.kind # "json" THEN rest
             ELSE IF line.Test # <<>> THEN rest \cup {line.Test}
             ELSE rest

\* the loop of parseRunEventsFromGoTestJSON.  A line of the event stream is
\* [kind, Action, Test]: kind "blank", "text" (json.Unmarshal fails),
\* "json" (it decodes to an event with this Action and Test) or "toolong"
\* (longer than the scanner's buffer: Scan stops and Err is set).
RECURSIVE collectRunEvents(_)
collectRunEvents(lines) ==
    IF lines = <<>> THEN {}
    ELSE LET line == Head(lines)
             rest == collectRunEvents(Tail(lines))
         IN  IF line.kind = "blank" THEN rest
             ELSE IF line.kind # "json" THEN rest
             ELSE IF line.Action = "run" /\ line.Test # <<>> THEN rest \cup {line.Test}
             ELSE rest

\* a set of strings as a sorted sequence (the map's keys, then sort.Strings)
RECURSIVE SortedSeqOf(_)
SortedSeqOf(S) ==
    IF S = {} THEN <<>>
    ELSE LET x == CHOOSE y \in S : TRUE
         IN  InsertSorted(SortedSeqOf(S \ {x}), x)

\* scanner.Err() after the loop: a line did not fit the scanner's buffer
scannerErr(lines) == \E i \in DOMAIN lines : lines[i].kind = "toolong"

\* the tests that began executing, sorted, or the scanner's error
parseRunEventsFromGoTestJSON(lines) ==
    IF scannerErr(lines) THEN [err |-> TRUE, tests |-> <<>>]
    ELSE [err |-> FALSE, tests |-> SortedSeqOf(collectRunEvents(lines))]

\* discoverSubtestsWithGo failing whenever the subprocess exits with failure
discoverSubtestsWithGo_FailsOnExit(topLevelTests, proc) ==
    IF Len(topLevelTests) = 0 THEN [err |-> FALSE, tests |-> <<>>]
    ELSE LET parsed == parseRunEventsFromGoTestJSON(proc.lines)
         IN  IF parsed.err \/ proc.exitErr THEN [err |-> TRUE, tests |-> <<>>]
             ELSE [err |-> FALSE, tests |-> parsed.tests]

\* strings.Join(parts, "|")
RECURSIVE JoinBar(_)
JoinBar(parts) ==
    IF parts = <<>> THEN <<>>
    ELSE IF Len(parts) = 1 THEN parts[1]
    ELSE parts[1] \o <<"|">> \o JoinBar(Tail(parts))

\* the run-selector of the discovery run: the escaped top-level names, one
\* anchored name or a sorted anchored alternation
buildTopLevelRunPattern(testNames) ==
    IF Len(testNames) = 1 THEN <<"^">> \o QuoteMeta(testNames[1]) \o <<"$">>
    ELSE LET parts == [i \in 1..Len(testNames) |-> QuoteMeta(testNames[i])]
         IN  <<"^", "(">> \o JoinBar(SortStrings(parts)) \o <<")", "$">>

\* the tokens sanitizeDiscoveryGoTestArgs drops
controlsDiscovery(arg) ==
    \/ arg = <<"-", "j", "s", "o", "n">>
    \/ arg = <<"-", "r", "u", "n">>
    \/ HasPrefix(arg, <<"-", "r", "u", "n", "=">>)
    \/ arg = <<"-", "l", "i", "s", "t">>
    \/ HasPrefix(arg, <<"-", "l", "i", "s", "t", "=">>)
    \/ arg = <<"-", "t", "i", "m", "e", "o", "u", "t">>
    \/ HasPrefix(arg, <<"-", "t", "i", "m", "e", "o", "u", "t", "=">>)
    \/ arg = <<"-", "c", "o", "u", "n", "t">>
    \/ HasPrefix(arg, <<"-", "c", "o", "u", "n", "t", "=">>)

\* the caller's arguments without the tokens that are one of the flags
\* -json, -run, -list, -timeout, -count or start with one of them and "="
RECURSIVE sanitizeDiscoveryGoTestArgs(_)
sanitizeDiscoveryGoTestArgs(args) ==
    IF args = <<>> THEN <<>>
    ELSE IF controlsDiscovery(Head(args)) THEN sanitizeDiscoveryGoTestArgs(Tail(args))
    ELSE <<Head(args)>> \o sanitizeDiscoveryGoTestArgs(Tail(args))

\* the argument list of the discovery subprocess
discoveryArgs(topLevelTests, timeout, extraGoTestArgs) ==
    <<<<"t", "e", "s", "t">>, <<"-", "j", "s", "o", "n">>, <<"-", "c", "o", "u", "n", "t", "=", "1">>, <<"-", "t", "i", "m", "e", "o", "u", "t">>, timeout>>
    \o sanitizeDiscoveryGoTestArgs(extraGoTestArgs)
    \o <<<<"-", "r", "u", "n">>, buildTopLevelRunPattern(topLevelTests), PkgDot>>

\* the run events of the discovery subprocess; no subprocess when there is
\* no top-level test
discoverSubtestsWithGo(topLevelTests, proc) ==
    IF Len(topLevelTests) = 0 THEN [err |-> FALSE, tests |-> <<>>]
    ELSE LET parsed == parseRunEventsFromGoTestJSON(proc.lines)
             discovered == parsed.tests
         IN  IF parsed.err THEN [err |-> TRUE, tests |-> <<>>]
             ELSE IF proc.exitErr /\ Len(discovered) = 0
             THEN [err |-> TRUE, tests |-> <<>>]
             ELSE [err |-> FALSE, tests |-> discovered]

\* one loop of mergeUniqueTests
RECURSIVE appendUnique(_, _)
appendUnique(merged, names) ==
    IF names = <<>> THEN merged
    ELSE IF Head(names) \in Range(merged) THEN appendUnique(merged, Tail(names))
    ELSE appendUnique(Append(merged, Head(names)), Tail(names))

\* base, then the names of extra not yet seen
mergeUniqueTests(base, extra) == appendUnique(appendUnique(<<>>, base), extra)

\* the number of distinct candidates that are not in base
countUniqueNotInBase(base, candidates) ==
    Cardinality(Range(candidates) \ Range(base))

\* the outcome of a selection that selected nothing
NoSelection ==
    [err |-> "", testsInFile |-> <<>>, listed |-> {}, runnable |-> <<>>,
     discovered |-> <<>>, selected |-> <<>>, discoveredNew |-> 0]

\* runGenerate, from the static extraction to the selected tests
selectTests(src, listProc, discoverSubtests, discoverProc) ==
    LET found == findTestsInFile(src)
        listed == listTestsWithGo(listProc)
        runnableTests == SortStrings(intersectTests(found.names, listed.names))
        disc == discoverSubtestsWithGo(runnableTests, discoverProc)
        none == NoSelection
    IN  IF found.err THEN [none EXCEPT !.err = "find tests in file"]
        ELSE IF listed.err
             THEN [none EXCEPT !.err = "list tests with go",
                               !.testsInFile = found.names]
        ELSE IF ~discoverSubtests
             THEN [none EXCEPT !.testsInFile = found.names, !.listed = listed.names,
                               !.runnable = runnableTests, !.selected = runnableTests]
        ELSE IF disc.err
             THEN [none EXCEPT !.err = "discover subtests",
                               !.testsInFile = found.names, !.listed = listed.names,
                               !.runnable = runnableTests]
        ELSE [none EXCEPT !.testsInFile = found.names, !.listed = listed.names,
                          !.runnable = runnableTests, !.discovered = disc.tests,
                          !.selected = SortStrings(mergeUniqueTests(runnableTests, disc.tests)),
                          !.discoveredNew = countUniqueNotInBase(runnableTests, disc.tests)]

(***************************************************************************)
(* Inputs.                                                                 *)
(***************************************************************************)
\* the sequences over S of length at most n
SeqUpTo(S, n) == UNION {[1..k -> S] : k \in 0..n}

FuncDecl(name) == [func |-> TRUE, recv |-> FALSE, name |-> name]
MethodDecl(name) == [func |-> TRUE, recv |-> TRUE, name |-> name]
OtherDecl(name) == [func |-> FALSE, recv |-> FALSE, name |-> name]

\* a_test.go: TestAlpha, TestBeta and the method TestGamma
SrcA == [path |-> FileA, parses |-> TRUE,
         decls |-> <<FuncDecl(TestAlpha), FuncDecl(TestBeta), MethodDecl(TestGamma)>>]
\* b_test.go: TestBeta, a variable, a helper, and TestBeta once more
SrcB == [path |-> FileB, parses |-> TRUE,
         decls |-> <<FuncDecl(TestBeta), OtherDecl(TestOld), FuncDecl(HelperName),
                     FuncDecl(TestBeta)>>]
\* a file that does not parse
SrcBad == [path |-> FileA, parses |-> FALSE, decls |-> <<>>]
\* -file naming notes.txt, and no -file at all
SrcTxt == [path |-> <<"n", "o", "t", "e", "s", ".", "t", "x", "t">>, parses |-> FALSE,
           decls |-> <<>>]
SrcNone == [path |-> <<>>, parses |-> FALSE, decls |-> <<>>]
SourceFiles == {SrcA, SrcB, SrcBad}

\* "ok  \tpkg\t0.01s", the banner that ends the listing
OkBanner == <<"o", "k", " ", " ", "\t", "p", "k", "g", "\t", "0", ".", "0", "1", "s">>
\* go test -list printing the names of S, then the banner
ListProc(S) == [exitErr |-> FALSE, lines |-> SortedSeqOf(S) \o <<OkBanner>>]
ListFails == [exitErr |-> TRUE, lines |-> <<<<"F", "A", "I", "L">>>>]
ListProcs == {ListProc(S) : S \in SUBSET {TestAlpha, TestBeta, TestOther}} \cup {ListFails}

RunEvent(test) == [kind |-> "json", Action |-> "run", Test |-> test]
FailEvent(test) == [kind |-> "json", Action |-> "fail", Test |-> test]
TextLine == [kind |-> "text", Action |-> "", Test |-> <<>>]
BlankLine == [kind |-> "blank", Action |-> "", Test |-> <<>>]
LongLine == [kind |-> "toolong", Action |-> "", Test |-> <<>>]
EventLines ==
    {RunEvent(TestAlpha), RunEvent(TestAlphaCase1), RunEvent(TestBeta),
     RunEvent(TestOtherSub), FailEvent(TestAlpha), TextLine,
     RunEvent(<<>>), BlankLine, LongLine}
DiscoverProcs(n) == [exitErr : BOOLEAN, lines : SeqUpTo(EventLines, n)]

\* the stream of a run of TestAlpha with one subtest, a stray line and a failure
ScenarioStream ==
    <<RunEvent(TestAlpha), RunEvent(TestAlphaCase1), TextLine, FailEvent(TestAlpha)>>

\* entries found in hand-edited documents
MyBuildEntry == UserEntry(MyBuild, TRUE, "absent", "absent", <<>>)
\* a hand-written entry whose label is the one generated for TestAlpha
HandAlphaEntry == UserEntry(LabelPrefix \o TestAlpha, TRUE, "map", "absent", <<>>)
\* an entry without a label whose marker key holds another value
NoLabelEntry == UserEntry(<<>>, FALSE, "map", "str", <<"0">>)
\* generated earlier: TestOld, and TestAlpha from a_test.go and from b_test.go
OldEntry == makeGeneratedTasks(<<TestOld>>, PkgDot, FileA, <<>>)[1]
AlphaEntryA == makeGeneratedTasks(<<TestAlpha>>, PkgDot, FileA, <<>>)[1]
AlphaEntryB == makeGeneratedTasks(<<TestAlpha>>, PkgDot, FileB, <<>>)[1]
DocEntries == {MyBuildEntry, HandAlphaEntry, NoLabelEntry, OldEntry, AlphaEntryA, AlphaEntryB}

(***************************************************************************)
(* State.                                                                  *)
(***************************************************************************)
NoInv ==
    [n |-> 0, op |-> "none", target |-> "tasks", dryRun |-> FALSE, prune |-> TRUE,
     err |-> "", existing |-> <<>>, selected |-> <<>>, generated |-> <<>>,
     merged |-> <<>>, stats |-> NoStats, wrote |-> FALSE]

NoSel ==
    [done |-> TRUE, src |-> SrcBad, listProc |-> ListFails, discoverSubtests |-> FALSE,
     discoverProc |-> [exitErr |-> FALSE, lines |-> <<>>], out |-> NoSelection]

\* no discovery subprocess has been started
NoBridge ==
    [pc |-> "idle", proc |-> "none", clock |-> 0, exitErr |-> FALSE, exitAt |-> 0,
     out |-> <<>>, dryRun |-> FALSE, topLevel |-> <<TestAlpha>>, extra |-> <<>>,
     args |-> <<>>]

\* normalizeRelaxedJSON has not been called
NoRelaxed == [done |-> TRUE, data |-> <<>>, err |-> "", out |-> <<>>]

(***************************************************************************)
(* Operations.                                                             *)
(***************************************************************************)
\* the entries generated for the selected tests of one target
generatedFor(target, selectedTests, relFilePath, extraGoTestArgs) ==
    IF target = "tasks"
    THEN makeGeneratedTasks(selectedTests, PkgDot, relFilePath, extraGoTestArgs)
    ELSE makeGeneratedDebugConfigs(selectedTests, PkgDot, relFilePath, extraGoTestArgs)

\* filepath.Ext: the suffix of the last path element from its last dot
Ext(path) ==
    LET dots == {i \in DOMAIN path :
                   /\ path[i] = "."
                   /\ \A j \in (i + 1)..Len(path) : path[j] \notin {".", "/"}}
    IN  IF dots = {} THEN <<>>
        ELSE SubSeq(path, CHOOSE i \in dots : TRUE, Len(path))

\* the checks of the -file flag at the head of runGenerate
validateFile(path) ==
    IF path = <<>> THEN "missing required flag: -file"
    ELSE IF Ext(path) # <<".", "g", "o">> THEN "file must have .go extension"
    ELSE ""

\* runGenerate: check the file, select the tests, merge the generated
\* entries into the target's document and, unless dry-run, write it back
runGenerate(target, src, listProc, discoverSubtests, discoverProc, prune, dryRun) ==
    LET s == selectTests(src, listProc, discoverSubtests, discoverProc)
        file == IF target = "tasks" THEN tasksFile ELSE debugFile
        generated == generatedFor(target, s.selected, src.path, <<>>)
        m == mergeTasks(file, generated, prune)
        base == [NoInv EXCEPT !.n = inv.n + 1, !.op = "generate", !.target = target,
                              !.dryRun = dryRun, !.prune = prune]
    IN  IF validateFile(src.path) # ""
        THEN /\ inv' = [base EXCEPT !.err = validateFile(src.path)]
             /\ UNCHANGED <<tasksFile, debugFile>>
        ELSE IF s.err # ""
        THEN /\ inv' = [base EXCEPT !.err = s.err]
             /\ UNCHANGED <<tasksFile, debugFile>>
        ELSE IF m.err
        THEN /\ inv' = [base EXCEPT !.err = IF target = "tasks" THEN "merge tasks"
                                            ELSE "merge debug configs",
                                    !.selected = s.selected,
                                    !.generated = generated]
             /\ UNCHANGED <<tasksFile, debugFile>>
        ELSE /\ inv' = [base EXCEPT !.existing = readTasks(file).tasks,
                                    !.selected = s.selected, !.generated = generated,
                                    !.merged = m.tasks, !.stats = m.stats,
                                    !.wrote = ~dryRun]
             /\ IF dryRun THEN UNCHANGED <<tasksFile, debugFile>>
                ELSE IF target = "tasks"
                     THEN tasksFile' = writeTasks(m.tasks) /\ UNCHANGED debugFile
                     ELSE debugFile' = writeTasks(m.tasks) /\ UNCHANGED tasksFile

\* runClear without the test of opts.dryRun
runClear_IgnoresDryRun(dryRun) ==
    LET rd == readTasks(tasksFile)
        c == clearGenerated(rd.tasks)
        base == [NoInv EXCEPT !.n = inv.n + 1, !.op = "clear", !.dryRun = dryRun]
    IN  IF rd.err
        THEN /\ inv' = [base EXCEPT !.err = "read tasks"]
             /\ UNCHANGED <<tasksFile, debugFile>>
        ELSE /\ inv' = [base EXCEPT !.existing = rd.tasks, !.merged = c.filtered,
                                    !.stats = [NoStats EXCEPT !.Removed = c.removed],
                                    !.wrote = ~dryRun]
             /\ tasksFile' = writeTasks(c.filtered)
             /\ UNCHANGED debugFile

\* runClear writing an empty document when the read fails
runClear_WritesOnError(dryRun) ==
    LET rd == readTasks(tasksFile)
        c == clearGenerated(rd.tasks)
        base == [NoInv EXCEPT !.n = inv.n + 1, !.op = "clear", !.dryRun = dryRun]
    IN  IF rd.err
        THEN /\ inv' = [base EXCEPT !.err = "read tasks"]
             /\ tasksFile' = writeTasks(<<>>)
             /\ UNCHANGED debugFile
        ELSE /\ inv' = [base EXCEPT !.existing = rd.tasks, !.merged = c.filtered,
                                    !.stats = [NoStats EXCEPT !.Removed = c.removed],
                                    !.wrote = ~dryRun]
             /\ IF dryRun THEN UNCHANGED tasksFile
                ELSE tasksFile' = writeTasks(c.filtered)
             /\ UNCHANGED debugFile

\* runClear that drops the generated entries of the debug document as well
runClear_ClearsDebug(dryRun) ==
    LET rd == readTasks(tasksFile)
        c == clearGenerated(rd.tasks)
        base == [NoInv EXCEPT !.n = inv.n + 1, !.op = "clear", !.dryRun = dryRun]
    IN  IF rd.err
        THEN /\ inv' = [base EXCEPT !.err = "read tasks"]
             /\ UNCHANGED <<tasksFile, debugFile>>
        ELSE /\ inv' = [base EXCEPT !.existing = rd.tasks, !.merged = c.filtered,
                                    !.stats = [NoStats EXCEPT !.Removed = c.removed],
                                    !.wrote = ~dryRun]
             /\ IF dryRun THEN UNCHANGED <<tasksFile, debugFile>>
                ELSE /\ tasksFile' = writeTasks(c.filtered)
                     /\ debugFile' = writeTasks(clearGenerated(readTasks(debugFile).tasks).filtered)

\* runClear: drop the generated entries of the tasks document and, unless
\* dry-run, write it back
runClear(dryRun) ==
    LET rd == readTasks(tasksFile)
        c == clearGenerated(rd.tasks)
        base == [NoInv EXCEPT !.n = inv.n + 1, !.op = "clear", !.dryRun = dryRun]
    IN  IF rd.err
        THEN /\ inv' = [base EXCEPT !.err = "read tasks"]
             /\ UNCHANGED <<tasksFile, debugFile>>
        ELSE /\ inv' = [base EXCEPT !.existing = rd.tasks, !.merged = c.filtered,
                                    !.stats = [NoStats EXCEPT !.Removed = c.removed],
                                    !.wrote = ~dryRun]
             /\ IF dryRun THEN UNCHANGED tasksFile
                ELSE tasksFile' = writeTasks(c.filtered)
             /\ UNCHANGED debugFile

(***************************************************************************)
(* Spec: sequences of invocations on the documents on disk.                *)
(***************************************************************************)
\* an invocation without -discover-subtests starts no discovery subprocess
NoDiscovery == [exitErr |-> FALSE, lines |-> <<>>]

\* the source file and what the toolchain answers, in the invocations of a
\* sequence: TestAlpha alone is runnable; discovery finds a subtest while
\* TestAlpha fails; b_test.go; discovery fails without any event; go test
\* -list fails; the file does not parse; the file is no Go file; no file
Toolchains ==
    {[src |-> SrcA, listProc |-> ListProc({TestAlpha}), discovery |-> NoDiscovery],
     [src |-> SrcA, listProc |-> ListProc({TestAlpha, TestBeta}),
      discovery |-> [exitErr |-> TRUE, lines |-> ScenarioStream]],
     [src |-> SrcB, listProc |-> ListProc({TestAlpha, TestBeta}), discovery |-> NoDiscovery],
     [src |-> SrcA, listProc |-> ListProc({TestAlpha}),
      discovery |-> [exitErr |-> TRUE, lines |-> <<>>]],
     [src |-> SrcA, listProc |-> ListFails, discovery |-> NoDiscovery],
     [src |-> SrcBad, listProc |-> ListProc({TestAlpha}), discovery |-> NoDiscovery],
     [src |-> SrcTxt, listProc |-> ListProc({TestAlpha}), discovery |-> NoDiscovery],
     [src |-> SrcNone, listProc |-> ListProc({TestAlpha}), discovery |-> NoDiscovery]}

\* the tasks document before the first invocation: none, a file of no bytes,
\* of white space, an empty array with a comment, an open string, a number,
\* and hand-edited documents
DiskFiles ==
    {AbsentFile, EmptyFile, BlankFile, CommentedFile, MalformedFile, NumberFile,
     JsonFile(<<MyBuildEntry>>),
     JsonFile(<<OldEntry, MyBuildEntry>>), JsonFile(<<HandAlphaEntry, NoLabelEntry>>)}

Init ==
    /\ tasksFile \in DiskFiles
    /\ debugFile = AbsentFile
    /\ inv = NoInv
    /\ sel = NoSel
    /\ bridge = NoBridge
    /\ relaxed = NoRelaxed

Generate ==
    /\ inv.n < MaxRuns
    /\ \E target \in {"tasks", "debug"}, tc \in Toolchains,
          prune \in BOOLEAN, dryRun \in BOOLEAN :
            runGenerate(target, tc.src, tc.listProc, tc.discovery # NoDiscovery,
                        tc.discovery, prune, dryRun)
    /\ UNCHANGED <<sel, bridge, relaxed>>

Clear ==
    /\ inv.n < MaxRuns
    /\ \E dryRun \in BOOLEAN : runClear(dryRun)
    /\ UNCHANGED <<sel, bridge, relaxed>>

Next == Generate \/ Clear

Spec == Init /\ [][Next]_vars

(***************************************************************************)
(* SpecMerge: mergeTasks applied to every hand-edited document.            *)
(***************************************************************************)
\* the selected test names the generated set is built from
MergeNames == {TestAlpha, TestAlphaCase1, TestBeta}

InitMerge ==
    /\ tasksFile \in {AbsentFile} \cup {JsonFile(d) : d \in SeqUpTo(DocEntries, MaxDocLen)}
    /\ debugFile = AbsentFile
    /\ inv = NoInv
    /\ sel = NoSel
    /\ bridge = NoBridge
    /\ relaxed = NoRelaxed

\* the call of mergeTasks in runGenerate, for the tasks of a_test.go
Merge ==
    /\ \E names \in SUBSET MergeNames, prune \in BOOLEAN :
         LET generated == generatedFor("tasks", SortedSeqOf(names), FileA, <<>>)
             m == mergeTasks(tasksFile, generated, prune)
         IN  inv' = [NoInv EXCEPT !.op = "merge", !.prune = prune,
                                  !.existing = readTasks(tasksFile).tasks,
                                  !.selected = SortedSeqOf(names),
                                  !.generated = generated, !.merged = m.tasks,
                                  !.stats = m.stats]
    /\ UNCHANGED <<tasksFile, debugFile, sel, bridge, relaxed>>

NextMerge == Merge

SpecMerge == InitMerge /\ [][NextMerge]_vars

(***************************************************************************)
(* SpecSelect: the selection of runGenerate applied to every answer of the *)
(* toolchain.                                                              *)
(***************************************************************************)
InitSelect ==
    /\ tasksFile = AbsentFile
    /\ debugFile = AbsentFile
    /\ inv = NoInv
    /\ sel \in [done : {FALSE}, src : SourceFiles, listProc : ListProcs,
                discoverSubtests : BOOLEAN, discoverProc : DiscoverProcs(MaxStreamLen),
                out : {NoSelection}]
    /\ bridge = NoBridge
    /\ relaxed = NoRelaxed

Select ==
    /\ ~sel.done
    /\ sel' = [sel EXCEPT !.done = TRUE,
                          !.out = selectTests(sel.src, sel.listProc, sel.discoverSubtests,
                                              sel.discoverProc)]
    /\ UNCHANGED <<tasksFile, debugFile, inv, bridge, relaxed>>

NextSelect == Select

SpecSelect == InitSelect /\ [][NextSelect]_vars

(***************************************************************************)
(* SpecJSON: normalizeRelaxedJSON applied to every byte string.            *)
(***************************************************************************)
\* the bytes of the documents: quote, backslash, slash, star, comma, the two
\* closers, line feed and a letter
JsonBytes == {"\"", "\\", "/", "*", ",", "}", "]", "\n", "a"}

InitJSON ==
    /\ tasksFile = AbsentFile
    /\ debugFile = AbsentFile
    /\ inv = NoInv
    /\ sel = NoSel
    /\ bridge = NoBridge
    /\ relaxed \in [done : {FALSE}, data : SeqUpTo(JsonBytes, MaxJsonLen),
                    err : {""}, out : {<<>>}]

\* the call of normalizeRelaxedJSON in readTasks
Normalize ==
    /\ ~relaxed.done
    /\ LET r == normalizeRelaxedJSON(relaxed.data)
       IN  relaxed' = [relaxed EXCEPT !.done = TRUE, !.err = r.err, !.out = r.out]
    /\ UNCHANGED <<tasksFile, debugFile, inv, sel, bridge>>

NextJSON == Normalize

SpecJSON == InitJSON /\ [][NextJSON]_vars

(***************************************************************************)
(* SpecDiscover: runGenerate with -discover-subtests, observed while the   *)
(* discovery subprocess runs.  discoverSubtestsWithGo starts the process   *)
(* with exec.Command, hands it the timeout as the -timeout argument and    *)
(* blocks in CombinedOutput until the process has exited; it starts no     *)
(* timer and never signals the process.  The process is whatever           *)
(* cfg.GoBinary names: it writes lines and exits when it chooses to.       *)
(***************************************************************************)
\* the timeout resolveSubtestTimeout returned, in ticks of the clock
SubtestTimeout == 2

\* timeout.String() of that timeout
TimeoutString == <<"2", "s">>

\* what the subprocess may write
DiscoverLines == {RunEvent(TestAlpha), RunEvent(TestAlphaCase1), TextLine}

InitDiscover ==
    /\ tasksFile \in {AbsentFile, JsonFile(<<MyBuildEntry>>)}
    /\ debugFile = AbsentFile
    /\ inv = NoInv
    /\ sel = NoSel
    /\ bridge = NoBridge
    /\ relaxed = NoRelaxed

\* runGenerate up to cmd.CombinedOutput(): the subprocess is started
StartDiscovery ==
    /\ bridge.pc = "idle"
    /\ \E dryRun \in BOOLEAN :
          bridge' = [bridge EXCEPT !.pc = "waiting", !.proc = "running",
                                   !.dryRun = dryRun,
                                   !.args = discoveryArgs(bridge.topLevel, TimeoutString,
                                                          bridge.extra)]
    /\ UNCHANGED <<tasksFile, debugFile, inv, sel, relaxed>>

\* the subprocess writes a line to the combined output
ProcEmit ==
    /\ bridge.proc = "running"
    /\ Len(bridge.out) < MaxStreamLen
    /\ \E line \in DiscoverLines : bridge' = [bridge EXCEPT !.out = Append(@, line)]
    /\ UNCHANGED <<tasksFile, debugFile, inv, sel, relaxed>>

\* the subprocess exits; a go test that honours -timeout has failed when it
\* exits after the timeout
ProcExit ==
    /\ bridge.proc = "running"
    /\ \E exitErr \in (IF bridge.clock >= SubtestTimeout THEN {TRUE} ELSE BOOLEAN) :
          bridge' = [bridge EXCEPT !.proc = "exited", !.exitErr = exitErr,
                                   !.exitAt = bridge.clock]
    /\ UNCHANGED <<tasksFile, debugFile, inv, sel, relaxed>>

\* time passes while CombinedOutput blocks
Tick ==
    /\ bridge.pc = "waiting"
    /\ bridge.clock < MaxClock
    /\ bridge' = [bridge EXCEPT !.clock = @ + 1]
    /\ UNCHANGED <<tasksFile, debugFile, inv, sel, relaxed>>

\* CombinedOutput returns once the subprocess has exited, and runGenerate
\* runs to its end with the output
ReturnDiscovery ==
    /\ bridge.pc = "waiting"
    /\ bridge.proc = "exited"
    /\ bridge' = [bridge EXCEPT !.pc = "returned"]
    /\ runGenerate("tasks", SrcA, ListProc({TestAlpha}), TRUE,
                   [exitErr |-> bridge.exitErr, lines |-> bridge.out], TRUE,
                   bridge.dryRun)
    /\ UNCHANGED <<sel, relaxed>>

NextDiscover == StartDiscovery \/ ProcEmit \/ ProcExit \/ Tick \/ ReturnDiscovery

SpecDiscover == InitDiscover /\ [][NextDiscover]_vars

(***************************************************************************)
(* SpecArgs: the start of the discovery subprocess for every short list of *)
(* extra go test arguments the caller can supply.                          *)
(***************************************************************************)
\* the tokens a caller supplies: the control flags bare and with a value,
\* a harmless flag and two values
ArgTokens ==
    {<<"-", "r", "u", "n">>,
     <<"-", "r", "u", "n", "=", "X">>,
     <<"-", "j", "s", "o", "n">>,
     <<"-", "j", "s", "o", "n", "=", "f", "a", "l", "s", "e">>,
     <<"-", "l", "i", "s", "t">>,
     <<"-", "l", "i", "s", "t", "=", "X">>,
     <<"-", "t", "i", "m", "e", "o", "u", "t">>,
     <<"-", "t", "i", "m", "e", "o", "u", "t", "=", "5", "s">>,
     <<"-", "c", "o", "u", "n", "t">>,
     <<"-", "c", "o", "u", "n", "t", "=", "2">>,
     <<"-", "v">>,
     <<"X">>,
     <<"5", "s">>}

InitArgs ==
    /\ tasksFile = AbsentFile
    /\ debugFile = AbsentFile
    /\ inv = NoInv
    /\ sel = NoSel
    /\ bridge \in {[NoBridge EXCEPT !.topLevel = tests, !.extra = extra] :
                      tests \in {<<TestAlpha>>, <<TestBeta, TestAlpha>>},
                      extra \in SeqUpTo(ArgTokens, MaxArgs)}
    /\ relaxed = NoRelaxed

NextArgs == StartDiscovery

SpecArgs == InitArgs /\ [][NextArgs]_vars

(***************************************************************************)
(* SpecExtract: findTestsInFile applied to every short file.               *)
(***************************************************************************)
\* the top-level declarations a file is made of
Decls ==
    {FuncDecl(TestAlpha), FuncDecl(TestBeta), FuncDecl(HelperName),
     MethodDecl(TestAlpha), MethodDecl(TestGamma), OtherDecl(TestOld)}

ParsedFiles ==
    {[path |-> FileA, parses |-> TRUE, decls |-> d] : d \in SeqUpTo(Decls, MaxDecls)}

InitExtract ==
    /\ tasksFile = AbsentFile
    /\ debugFile = AbsentFile
    /\ inv = NoInv
    /\ sel \in {[NoSel EXCEPT !.done = FALSE, !.src = src] :
                   src \in ParsedFiles \cup {SrcBad}}
    /\ bridge = NoBridge
    /\ relaxed = NoRelaxed

\* the call of findTestsInFile in runGenerate
Extract ==
    /\ ~sel.done
    /\ LET found == findTestsInFile(sel.src)
       IN  sel' = [sel EXCEPT !.done = TRUE,
                              !.out = IF found.err
                                      THEN [NoSelection EXCEPT !.err = "find tests in file"]
                                      ELSE [NoSelection EXCEPT !.testsInFile = found.names]]
    /\ UNCHANGED <<tasksFile, debugFile, inv, bridge, relaxed>>

NextExtract == Extract

SpecExtract == InitExtract /\ [][NextExtract]_vars

(***************************************************************************)
(* SpecEntries: the generated entries of one selected test name, for every *)
(* short name over NameChars and the subtest paths of the documentation.   *)
(***************************************************************************)
OuterInner == <<"O", "u", "t", "e", "r", "/", "I", "n", "n", "e", "r", " ", "w", "i", "t", "h", " ", "s", "p", "a", "c", "e">>
OuterInnerMore == <<"O", "u", "t", "e", "r", "/", "I", "n", "n", "e", "r", " ", "w", "i", "t", "h", " ", "s", "p", "a", "c", "e", "m", "o", "r", "e">>
XOuterInner == <<"X", "O", "u", "t", "e", "r", "/", "I", "n", "n", "e", "r", " ", "w", "i", "t", "h", " ", "s", "p", "a", "c", "e">>

\* the characters test names are drawn from: a letter, the path separator,
\* a regexp metacharacter and a space
NameChars == {"A", "/", ".", " "}

TestNames == SeqUpTo(NameChars, MaxNameLen) \cup {OuterInner, OuterInnerMore, XOuterInner}

InitEntries ==
    /\ tasksFile = AbsentFile
    /\ debugFile = AbsentFile
    /\ inv \in {[NoInv EXCEPT !.selected = <<name>>] : name \in TestNames}
    /\ sel = NoSel
    /\ bridge = NoBridge
    /\ relaxed = NoRelaxed

\* the call of makeGeneratedTasks or makeGeneratedDebugConfigs in runGenerate
MakeEntries ==
    /\ inv.op = "none"
    /\ \E target \in {"tasks", "debug"} :
         inv' = [inv EXCEPT !.op = "entries", !.target = target,
                            !.generated = generatedFor(target, inv.selected, FileA, <<>>)]
    /\ UNCHANGED <<tasksFile, debugFile, sel, bridge, relaxed>>

NextEntries == MakeEntries

SpecEntries == InitEntries /\ [][NextEntries]_vars

(***************************************************************************)
(* Vocabulary of the properties.                                           *)
(***************************************************************************)
\* the entry carries the marker key with the marker value
CarriesMarker(e) == e.env = "map" /\ e.gen = "str" /\ e.genVal = <<"1">>

NotMarked(e) == ~CarriesMarker(e)

\* the entries of a document without the marker, in order
NonGenerated(doc) == SelectSeq(doc, NotMarked)

\* the entries of a document with the marker, in order
Marked(doc) == SelectSeq(doc, CarriesMarker)

\* the labels of a document
Labels(doc) == {doc[i].label : i \in {j \in 1..Len(doc) : doc[j].hasLabel}}

\* the positions of a document that hold label l
Positions(doc, l) == {i \in 1..Len(doc) : doc[i].hasLabel /\ doc[i].label = l}

\* no two entries of the document share a label
DistinctLabels(doc) == \A l \in Labels(doc) : Cardinality(Positions(doc, l)) = 1

\* a is a subsequence of b
RECURSIVE IsSubsequence(_, _)
IsSubsequence(a, b) ==
    IF a = <<>> THEN TRUE
    ELSE IF b = <<>> THEN FALSE
    ELSE IF Head(a) = Head(b) THEN IsSubsequence(Tail(a), Tail(b))
    ELSE IsSubsequence(a, Tail(b))

\* the entries of the existing document that the pruning policy keeps
Survivors(doc, prune) == IF prune THEN NonGenerated(doc) ELSE doc

\* a call of mergeTasks has been made
Merged == inv.op = "merge"

\* what a second call with the same generated set reports on the result
SecondStats == mergeEntries(inv.merged, inv.generated, inv.prune).stats

\* the entry generated for label l, when the generated set has one
GeneratedWith(l) == inv.generated[CHOOSE k \in 1..Len(inv.generated) : inv.generated[k].label = l]

\* the greatest element of a non-empty set of numbers
MaxOf(S) == CHOOSE x \in S : \A y \in S : y <= x

\* label l of the generated set is the label of some surviving entry
Present(l) == l \in Labels(Survivors(inv.existing, inv.prune))

\* the generated entries whose label no surviving entry holds, in order
NotPresent(e) == ~Present(e.label)
Fresh == SelectSeq(inv.generated, NotPresent)

\* an entry without the marker holds the label of a generated entry
LabelCollision ==
    \E i \in 1..Len(inv.existing) :
        /\ NotMarked(inv.existing[i])
        /\ inv.existing[i].hasLabel
        /\ inv.existing[i].label \in Labels(inv.generated)

(***************************************************************************)
(* C1 (as claimed): every entry of the existing document that does not     *)
(* carry the marker appears in the merged document with identical content, *)
(* and these entries keep their relative order, whatever the generated set *)
(* and the pruning setting.                                                *)
(***************************************************************************)
C1_NonGeneratedUntouched ==
    Merged => IsSubsequence(NonGenerated(inv.existing), inv.merged)

(***************************************************************************)
(* C2 (as claimed): merging the same generated set into the merged         *)
(* document again yields the merged document, entry for entry.             *)
(***************************************************************************)
C2_MergeIdempotent ==
    Merged => mergeEntries(inv.merged, inv.generated, inv.prune).tasks = inv.merged

C4_NoSharedLabel == Merged => DistinctLabels(inv.merged)

(***************************************************************************)
(* C4 (amended): when the entries of the existing document that survive    *)
(* pruning have pairwise distinct labels, no two entries of the merged     *)
(* document share a label.                                                 *)
(***************************************************************************)
C4_DistinctLabelsPreserved ==
    (Merged /\ DistinctLabels(Survivors(inv.existing, inv.prune)))
        => DistinctLabels(inv.merged)

\* an update and an append into a document with distinct labels
C4_Witness ==
    /\ Merged /\ ~inv.prune
    /\ DistinctLabels(inv.existing)
    /\ inv.stats.Updated >= 1 /\ inv.stats.Added >= 1
    /\ Len(inv.existing) >= 2

(***************************************************************************)
(* C5: with pruning enabled every marker-carrying entry of the existing    *)
(* document is removed, and the marker-carrying entries of the merged      *)
(* document are exactly the generated entries, each once; with an empty    *)
(* generated set the merged document has no marker-carrying entry.         *)
(***************************************************************************)
C5_PruneLeavesExactlyGenerated ==
    (Merged /\ inv.prune) =>
        /\ inv.stats.Removed = Len(Marked(inv.existing))
        /\ Range(Marked(inv.merged)) = Range(inv.generated)
        /\ Len(Marked(inv.merged)) = Len(inv.generated)
        /\ inv.generated = <<>> => Marked(inv.merged) = <<>>

\* a stale generated entry is pruned while new entries are inserted
C5_Witness ==
    /\ Merged /\ inv.prune
    /\ OldEntry \in Range(inv.existing)
    /\ inv.generated # <<>>
    /\ OldEntry \notin Range(inv.merged)

\* the same with an empty generated set
C5_WitnessEmpty ==
    /\ Merged /\ inv.prune
    /\ Marked(inv.existing) # <<>>
    /\ inv.generated = <<>>

(***************************************************************************)
(* C6 (as claimed): with pruning disabled nothing is removed, every        *)
(* existing entry whose label is not a generated label stays unchanged at  *)
(* its position, every existing generated entry whose label is a generated *)
(* label is overwritten in place, and no duplicate label is introduced.    *)
(***************************************************************************)
C6_NoPruneOverwritesEvery ==
    (Merged /\ ~inv.prune) =>
        /\ inv.stats.Removed = 0
        /\ Len(inv.merged) >= Len(inv.existing)
        /\ \A i \in 1..Len(inv.existing) :
              LET e == inv.existing[i]
              IN  IF e.hasLabel /\ e.label \in Labels(inv.generated)
                  THEN CarriesMarker(e) => inv.merged[i] = GeneratedWith(e.label)
                  ELSE inv.merged[i] = e
        /\ \A l \in Labels(inv.merged) :
              \/ Cardinality(Positions(inv.merged, l)) = 1
              \/ Cardinality(Positions(inv.merged, l)) = Cardinality(Positions(inv.existing, l))

(***************************************************************************)
(* C6 (amended): with pruning disabled nothing is removed, every existing  *)
(* entry whose label is not a generated label stays unchanged at its       *)
(* position, an existing generated entry whose label is a generated label  *)
(* is overwritten in place when it is the last entry with that label and   *)
(* stays as it is when a later entry has the same label, and no duplicate  *)
(* label is introduced.                                                    *)
(***************************************************************************)
C6_NoPruneOverwritesLast ==
    (Merged /\ ~inv.prune) =>
        /\ inv.stats.Removed = 0
        /\ Len(inv.merged) >= Len(inv.existing)
        /\ \A i \in 1..Len(inv.existing) :
              LET e == inv.existing[i]
              IN  IF e.hasLabel /\ e.label \in Labels(inv.generated)
                  THEN CarriesMarker(e) =>
                          IF i = MaxOf(Positions(inv.existing, e.label))
                          THEN inv.merged[i] = GeneratedWith(e.label)
                          ELSE inv.merged[i] = e
                  ELSE inv.merged[i] = e
        /\ \A l \in Labels(inv.merged) :
              \/ Cardinality(Positions(inv.merged, l)) = 1
              \/ Cardinality(Positions(inv.merged, l)) = Cardinality(Positions(inv.existing, l))

\* TestAlpha, generated earlier from b_test.go, is overwritten in place while
\* the stale TestOld entry after it stays
C6_Witness ==
    /\ Merged /\ ~inv.prune
    /\ Len(inv.existing) >= 2
    /\ inv.existing[1] = AlphaEntryB /\ inv.existing[2] = OldEntry
    /\ inv.merged[1] = AlphaEntryA /\ inv.merged[2] = OldEntry
    /\ inv.stats.Updated = 1

(***************************************************************************)
(* C7: the counts match what the merge did: removed is the number of       *)
(* marker-carrying entries dropped by pruning, updated the number of       *)
(* generated entries whose label was present after pruning, added the      *)
(* number of generated entries appended (they are the tail of the merged   *)
(* document, in order).  An empty or absent document and TestAlpha give    *)
(* the one entry go:TestAlpha with added 1, updated 0, removed 0; a        *)
(* generated TestOld and a hand-written my-build with pruning on give      *)
(* my-build untouched, TestOld removed and TestAlpha added.                *)
(***************************************************************************)
C7_CountsMatch ==
    Merged =>
        LET kept == Survivors(inv.existing, inv.prune)
        IN  /\ inv.stats.Removed = Len(inv.existing) - Len(kept)
            /\ inv.stats.Removed = (IF inv.prune THEN Len(Marked(inv.existing)) ELSE 0)
            /\ inv.stats.Updated =
                  Cardinality({k \in 1..Len(inv.generated) : Present(inv.generated[k].label)})
            /\ inv.stats.Added = Len(Fresh)
            /\ Len(inv.merged) = Len(kept) + inv.stats.Added
            /\ SubSeq(inv.merged, Len(kept) + 1, Len(inv.merged)) = Fresh
            /\ (inv.existing = <<>> /\ inv.selected = <<TestAlpha>>) =>
                  /\ Len(inv.merged) = 1
                  /\ inv.merged[1].label = <<"g", "o", ":", "T", "e", "s", "t", "A", "l", "p", "h", "a">>
                  /\ inv.stats = [Added |-> 1, Updated |-> 0, Removed |-> 0]
            /\ (inv.existing = <<OldEntry, MyBuildEntry>> /\ inv.prune
                    /\ inv.selected = <<TestAlpha>>) =>
                  /\ inv.merged = <<MyBuildEntry, AlphaEntryA>>
                  /\ inv.stats = [Added |-> 1, Updated |-> 0, Removed |-> 1]

\* the regeneration for TestAlpha over a generated TestOld and my-build
C7_Witness ==
    /\ Merged /\ inv.prune
    /\ inv.existing = <<OldEntry, MyBuildEntry>>
    /\ inv.selected = <<TestAlpha>>
    /\ inv.merged = <<MyBuildEntry, AlphaEntryA>>

\* the generation of TestAlpha into an absent document
C7_WitnessAbsent ==
    /\ Merged
    /\ tasksFile = AbsentFile
    /\ inv.selected = <<TestAlpha>>
    /\ inv.stats = [Added |-> 1, Updated |-> 0, Removed |-> 0]

(***************************************************************************)
(* C8: clear writes back the tasks document with every marker-carrying     *)
(* entry dropped and every other entry kept, unchanged and in order; it    *)
(* reports the number of entries dropped and adds no entry.                *)
(***************************************************************************)
C8_ClearDropsGenerated ==
    (inv.op = "clear" /\ inv.err = "") =>
        /\ inv.merged = NonGenerated(inv.existing)
        /\ inv.stats.Removed = Len(Marked(inv.existing))
        /\ inv.stats.Removed = Len(inv.existing) - Len(inv.merged)
        /\ inv.stats.Added = 0
        /\ ~inv.dryRun => tasksFile = JsonFile(NonGenerated(inv.existing))

\* clear after a generation next to a hand-written entry
C8_Witness ==
    /\ inv.op = "clear" /\ inv.err = "" /\ ~inv.dryRun
    /\ inv.n = 2
    /\ inv.stats.Removed >= 2
    /\ MyBuildEntry \in Range(inv.existing)
    /\ tasksFile = JsonFile(<<MyBuildEntry>>)

(***************************************************************************)
(* Vocabulary of the selection.                                            *)
(***************************************************************************)
\* the segment of a test name before the first '/'
TopLevelPrefix(name) == SplitSlash(name, <<>>)[1]

\* a selection has been made and did not fail
Selected == sel.done /\ sel.out.err = ""

\* the names extracted from the file that the toolchain lists
RunnableNames == Range(sel.out.testsInFile) \cap sel.out.listed

(***************************************************************************)
(* C9 (as claimed): the selected set is a subset of the union of the       *)
(* statically extracted names and the names the toolchain lists, and a     *)
(* name declared in the file but not listed is never selected, with and    *)
(* without subtest discovery.                                              *)
(***************************************************************************)
C9_SelectedWithinStaticAndListed ==
    Selected =>
        /\ Range(sel.out.selected) \subseteq Range(sel.out.testsInFile) \cup sel.out.listed
        /\ \A n \in Range(sel.out.testsInFile) :
              n \notin sel.out.listed => n \notin Range(sel.out.selected)

(***************************************************************************)
(* C9 (amended): without subtest discovery the selected set is exactly the *)
(* set of statically extracted names that the toolchain lists, so a name   *)
(* declared but not listed is never selected; with subtest discovery it is *)
(* that set together with every name the discovery returned (subtest names *)
(* are neither extracted nor listed), and a declared but unlisted name is  *)
(* selected exactly when the discovery returned it.                        *)
(***************************************************************************)
C9_SelectedIsRunnablePlusDiscovered ==
    Selected =>
        /\ Range(sel.out.selected) = RunnableNames \cup Range(sel.out.discovered)
        /\ ~sel.discoverSubtests =>
              /\ Range(sel.out.selected) = RunnableNames
              /\ \A n \in Range(sel.out.testsInFile) :
                    n \notin sel.out.listed => n \notin Range(sel.out.selected)
        /\ \A n \in Range(sel.out.testsInFile) \ sel.out.listed :
              n \in Range(sel.out.selected) <=> n \in Range(sel.out.discovered)

\* TestBeta is declared but not listed, and is not selected
C9_Witness ==
    /\ Selected /\ ~sel.discoverSubtests
    /\ sel.src = SrcA
    /\ sel.out.listed = {TestAlpha}
    /\ TestBeta \in Range(sel.out.testsInFile)
    /\ sel.out.selected = <<TestAlpha>>

\* discovery adds the subtest of TestAlpha
C9_WitnessDiscovery ==
    /\ Selected /\ sel.discoverSubtests
    /\ sel.out.selected = <<TestAlpha, TestAlphaCase1>>

(***************************************************************************)
(* C10 (as claimed): every discovered name that enters the selected set    *)
(* has a top-level prefix that is extracted from the file and listed by    *)
(* the toolchain, whatever event stream the discovery subprocess emits.    *)
(***************************************************************************)
C10_DiscoveredUnderRunnable ==
    Selected =>
        \A n \in Range(sel.out.discovered) :
            n \in Range(sel.out.selected) => TopLevelPrefix(n) \in RunnableNames

(***************************************************************************)
(* Vocabulary of the event stream.                                         *)
(***************************************************************************)
\* the non-empty test identifiers of the decodable lines whose action is run
RunNames(lines) ==
    {lines[i].Test : i \in {j \in DOMAIN lines :
                              /\ lines[j].kind = "json"
                              /\ lines[j].Action = "run"
                              /\ lines[j].Test # <<>>}}

\* every line can be scanned: none exceeds the scanner's buffer
Scannable(lines) == \A i \in DOMAIN lines : lines[i].kind # "toolong"

\* strictly ascending in byte order: sorted and without duplicates
StrictlyAscending(seq) ==
    \A i, j \in DOMAIN seq : i < j => StrLess(seq[i], seq[j])

\* the selection reached the discovery subprocess
DiscoveryRan ==
    /\ sel.done /\ sel.discoverSubtests
    /\ sel.out.err \in {"", "discover subtests"}
    /\ sel.out.runnable # <<>>

C11_WitnessSkipped ==
    /\ DiscoveryRan /\ sel.out.err = "" /\ ~sel.discoverProc.exitErr
    /\ sel.discoverProc.lines = <<FailEvent(TestAlpha), TextLine>>
    /\ sel.out.discovered = <<>>

\* the names the parse of the stream yields: none when the scan fails
DiscoveredNames(lines) == IF Scannable(lines) THEN RunNames(lines) ELSE {}

(***************************************************************************)
(* C12: subtest discovery succeeds and returns the discovered names        *)
(* whenever at least one name was discovered, even when the subprocess     *)
(* exited with failure; it fails exactly when the subprocess exited with   *)
(* failure and nothing was discovered, or the output could not be scanned. *)
(***************************************************************************)
C12_DiscoveryErrorPolicy ==
    (sel.done /\ sel.discoverSubtests
       /\ sel.out.err \in {"", "discover subtests"}) =>
        LET lines == sel.discoverProc.lines
            names == DiscoveredNames(lines)
        IN  IF sel.out.runnable = <<>>
            THEN sel.out.err = "" /\ sel.out.discovered = <<>>
            ELSE /\ names # {} =>
                      /\ sel.out.err = ""
                      /\ Range(sel.out.discovered) = names
                 /\ sel.out.err = "discover subtests" <=>
                      \/ ~Scannable(lines)
                      \/ sel.discoverProc.exitErr /\ names = {}

\* the subprocess exits with failure after TestAlpha and its subtest ran
C12_Witness ==
    /\ DiscoveryRan /\ sel.discoverProc.exitErr
    /\ sel.out.err = ""
    /\ sel.out.discovered = <<TestAlpha, TestAlphaCase1>>

\* the subprocess exits with failure and no test ran
C12_WitnessFails ==
    /\ DiscoveryRan /\ sel.discoverProc.exitErr
    /\ sel.discoverProc.lines = <<TextLine, FailEvent(TestAlpha)>>
    /\ sel.out.err = "discover subtests"

\* the subprocess exits normally and the output cannot be scanned
C12_WitnessScan ==
    /\ DiscoveryRan /\ ~sel.discoverProc.exitErr
    /\ sel.discoverProc.lines = <<RunEvent(TestAlpha), LongLine>>
    /\ sel.out.err = "discover subtests"

\* the subprocess was still running when the timeout elapsed
TimedOut == bridge.proc = "exited" /\ bridge.exitAt >= SubtestTimeout

(***************************************************************************)
(* C13: subtest discovery never blocks past the configured timeout: when   *)
(* the subprocess is still running at the timeout the bridge terminates it *)
(* and returns control to the caller with a timeout failure, and when that *)
(* happens with zero events parsed no document is written.                 *)
(***************************************************************************)
C13_DiscoveryBoundedByTimeout ==
    /\ bridge.pc = "waiting" => bridge.clock <= SubtestTimeout
    /\ (bridge.pc = "returned" /\ TimedOut) => inv.err = "discover subtests"
    /\ (bridge.pc = "returned" /\ TimedOut /\ RunNames(bridge.out) = {}) =>
          /\ inv.err = "discover subtests"
          /\ ~inv.wrote
          /\ tasksFile \in {AbsentFile, JsonFile(<<MyBuildEntry>>)}

(***************************************************************************)
(* C14: when a step of generate or clear fails before the write (the file  *)
(* check, the source parse, the toolchain listing, the subtest discovery,  *)
(* the read or the parse of the existing document), the invocation returns *)
(* an error and the documents on disk are left exactly as they were; the   *)
(* write is issued only after read and merge succeeded in memory.          *)
(***************************************************************************)
C14_NoWriteOnError ==
    /\ [](inv.wrote => inv.err = "")
    /\ [][(inv'.n = inv.n + 1 /\ inv'.err # "") =>
             (tasksFile' = tasksFile /\ debugFile' = debugFile /\ ~inv'.wrote)]_vars
    /\ [][(inv'.n = inv.n + 1 /\ inv'.wrote) =>
             /\ inv'.err = ""
             /\ IF inv'.op = "generate" /\ inv'.target = "debug"
                THEN debugFile' = JsonFile(inv'.merged) /\ tasksFile' = tasksFile
                ELSE tasksFile' = JsonFile(inv'.merged) /\ debugFile' = debugFile]_vars

\* the tasks document is no JSON: the merge fails and the file stays
C14_Witness ==
    /\ inv.op = "generate" /\ inv.target = "tasks" /\ ~inv.dryRun
    /\ inv.err = "merge tasks"
    /\ tasksFile = MalformedFile

\* discovery fails after an invocation that wrote the document
C14_WitnessDiscovery ==
    /\ inv.n = 2 /\ inv.op = "generate" /\ inv.target = "tasks" /\ ~inv.dryRun
    /\ inv.err = "discover subtests"
    /\ tasksFile = JsonFile(<<MyBuildEntry, AlphaEntryA>>)

\* clear of a document that is no JSON
C14_WitnessClear ==
    /\ inv.op = "clear" /\ ~inv.dryRun
    /\ inv.err = "read tasks"
    /\ tasksFile = MalformedFile

(***************************************************************************)
(* C15: in dry-run mode neither generate, generate-debug nor clear writes  *)
(* a document: the tasks document and the debug document on disk are the   *)
(* same after the invocation, whatever the merge result is.                *)
(***************************************************************************)
C15_DryRunWritesNothing ==
    [][(inv'.n = inv.n + 1 /\ inv'.dryRun) =>
          (tasksFile' = tasksFile /\ debugFile' = debugFile /\ ~inv'.wrote)]_vars

\* a dry-run generate whose merge result has an entry the absent file lacks
C15_Witness ==
    /\ inv.op = "generate" /\ inv.target = "tasks" /\ inv.dryRun /\ inv.err = ""
    /\ inv.stats.Added >= 1
    /\ tasksFile = AbsentFile

\* a dry-run generate-debug
C15_WitnessDebug ==
    /\ inv.op = "generate" /\ inv.target = "debug" /\ inv.dryRun /\ inv.err = ""
    /\ inv.stats.Added >= 1
    /\ debugFile = AbsentFile

\* a dry-run clear that would drop an entry
C15_WitnessClear ==
    /\ inv.op = "clear" /\ inv.dryRun /\ inv.err = ""
    /\ inv.stats.Removed >= 1
    /\ tasksFile = JsonFile(inv.existing)

(***************************************************************************)
(* Vocabulary of relaxed JSON: the reading of a byte string as JSON with   *)
(* comments.  Every byte gets a tag: "code" (outside strings and           *)
(* comments), "str" (in a string literal, its opening quote included),     *)
(* "strEnd" (the closing quote of a literal), "line" (in a line comment,   *)
(* its two slashes included; the line feed that ends it is code), "block"  *)
(* (in a block comment, its opening included) and "blockEnd" (the two      *)
(* bytes that close a block comment).  With comments = FALSE the bytes are *)
(* read as plain JSON.                                                     *)
(***************************************************************************)
RECURSIVE Tags(_, _, _, _)
Tags(data, i, in, comments) ==
    IF i > Len(data) THEN <<>>
    ELSE LET ch == data[i]
             two == IF i < Len(data) THEN <<ch, data[i + 1]>> ELSE <<ch>>
         IN  CASE in = "line" ->
                    IF ch = "\n" THEN <<"code">> \o Tags(data, i + 1, "code", comments)
                    ELSE <<"line">> \o Tags(data, i + 1, "line", comments)
               [] in = "block" ->
                    IF two = <<"*", "/">>
                    THEN <<"blockEnd", "blockEnd">> \o Tags(data, i + 2, "code", comments)
                    ELSE <<"block">> \o Tags(data, i + 1, "block", comments)
               [] in = "str" ->
                    IF ch = "\\" /\ i < Len(data)
                    THEN <<"str", "str">> \o Tags(data, i + 2, "str", comments)
                    ELSE IF ch = "\"" THEN <<"strEnd">> \o Tags(data, i + 1, "code", comments)
                    ELSE <<"str">> \o Tags(data, i + 1, "str", comments)
               [] OTHER ->
                    IF ch = "\"" THEN <<"str">> \o Tags(data, i + 1, "str", comments)
                    ELSE IF comments /\ two = <<"/", "/">>
                    THEN <<"line", "line">> \o Tags(data, i + 2, "line", comments)
                    ELSE IF comments /\ two = <<"/", "*">>
                    THEN <<"block", "block">> \o Tags(data, i + 2, "block", comments)
                    ELSE <<"code">> \o Tags(data, i + 1, "code", comments)

TagsOf(data, comments) == Tags(data, 1, "code", comments)

\* the tags of the bytes of a comment
CommentTags == {"line", "block", "blockEnd"}

\* the string literals of data in order, each from its opening quote to its
\* closing quote; a literal left open at the end of data is the last one
RECURSIVE LiteralsFrom(_, _, _, _)
LiteralsFrom(data, tags, i, cur) ==
    IF i > Len(data) THEN (IF cur = <<>> THEN <<>> ELSE <<cur>>)
    ELSE IF tags[i] = "str" THEN LiteralsFrom(data, tags, i + 1, Append(cur, data[i]))
    ELSE IF tags[i] = "strEnd"
    THEN <<Append(cur, data[i])>> \o LiteralsFrom(data, tags, i + 1, <<>>)
    ELSE LiteralsFrom(data, tags, i + 1, cur)

Literals(data, comments) == LiteralsFrom(data, TagsOf(data, comments), 1, <<>>)

\* every string literal of data is closed
StringsTerminated(data) ==
    LET tags == TagsOf(data, TRUE)
    IN  tags = <<>> \/ tags[Len(tags)] # "str"

\* normalizeRelaxedJSON was applied
Normalized == relaxed.done

(***************************************************************************)
(* C16: normalizeRelaxedJSON leaves the bytes of every string literal      *)
(* unchanged: when it returns an output, the string literals of the output *)
(* are the string literals of the input, byte for byte and in the same     *)
(* order, whatever they contain.                                           *)
(***************************************************************************)
C16_StringLiteralsUnchanged ==
    (Normalized /\ relaxed.err = "") =>
        /\ StringsTerminated(relaxed.data)
        /\ Literals(relaxed.out, FALSE) = Literals(relaxed.data, TRUE)

\* a literal holding a comma and a closer, followed by a trailing comma
C16_Witness ==
    /\ Normalized /\ relaxed.err = ""
    /\ relaxed.data = <<"\"", ",", "}", "\"", ",">>
    /\ relaxed.out = relaxed.data

\* a literal holding a line comment start
C16_WitnessSlashes ==
    /\ Normalized /\ relaxed.err = ""
    /\ relaxed.data = <<"\"", "/", "/", "\"", "\n">>
    /\ relaxed.out = relaxed.data

\* a literal holding an escaped quote, before a trailing comma
C16_WitnessEscape ==
    /\ Normalized /\ relaxed.err = ""
    /\ relaxed.data = <<"\"", "\\", "\"", "\"", ",">>
    /\ Literals(relaxed.out, FALSE) = << <<"\"", "\\", "\"", "\"">> >>

\* the file does not exist, or holds nothing but white space
NoContent(file) ==
    \/ file.kind = "absent"
    \/ file.kind = "raw" /\ \A i \in DOMAIN file.bytes : IsSpace(file.bytes[i])

(***************************************************************************)
(* C17: a document file that is absent, empty or only white space is read  *)
(* as the empty entry sequence without error: generate against it adds     *)
(* every generated entry, and clear reports zero removed.                  *)
(***************************************************************************)
C17_NoContentReadsEmpty ==
    [][LET file == IF inv'.op = "generate" /\ inv'.target = "debug"
                   THEN debugFile ELSE tasksFile
       IN  (inv'.n = inv.n + 1 /\ NoContent(file)) =>
              /\ inv'.err \notin {"merge tasks", "merge debug configs", "read tasks"}
              /\ inv'.op = "clear" =>
                    /\ inv'.err = ""
                    /\ inv'.existing = <<>>
                    /\ inv'.stats.Removed = 0
              /\ (inv'.op = "generate" /\ inv'.err = "") =>
                    /\ inv'.existing = <<>>
                    /\ inv'.merged = inv'.generated
                    /\ inv'.stats = [Added |-> Len(inv'.generated), Updated |-> 0,
                                     Removed |-> 0]]_vars

\* generate against a file of white space (dry-run, so the file is still there)
C17_Witness ==
    /\ inv.op = "generate" /\ inv.target = "tasks" /\ inv.dryRun /\ inv.err = ""
    /\ tasksFile = BlankFile
    /\ inv.stats.Added >= 1
    /\ inv.merged = inv.generated

\* generate against the absent debug document writes the generated entries
C17_WitnessAbsent ==
    /\ inv.n = 1 /\ inv.op = "generate" /\ inv.target = "debug" /\ ~inv.dryRun
    /\ inv.err = "" /\ inv.stats.Added >= 1
    /\ debugFile = JsonFile(inv.generated)

\* clear of an empty file
C17_WitnessClear ==
    /\ inv.op = "clear" /\ inv.dryRun /\ inv.err = ""
    /\ tasksFile = EmptyFile
    /\ inv.stats.Removed = 0

(***************************************************************************)
(* C18: for each entry of G in order, mergeTasks replaces the existing     *)
(* entry with the same label at that entry's index when one exists after   *)
(* pruning, and otherwise appends the new entry at the end; the positions  *)
(* of all other entries are unchanged, and the appended entries come after *)
(* all surviving existing entries, in the order of G.                      *)
(***************************************************************************)
C18_ReplaceInPlaceOrAppend ==
    Merged =>
        LET S == Survivors(inv.existing, inv.prune)
            G == inv.generated
            M == inv.merged
        IN  /\ Len(M) = Len(S) + Len(Fresh)
            /\ SubSeq(M, Len(S) + 1, Len(M)) = Fresh
            /\ \A k \in DOMAIN G :
                  Present(G[k].label) =>
                      /\ M[MaxOf(Positions(S, G[k].label))] = G[k]
                      /\ \A i \in (Len(S) + 1)..Len(M) : M[i] # G[k]
            /\ \A i \in DOMAIN S :
                  \/ M[i] = S[i]
                  \/ /\ S[i].hasLabel
                     /\ S[i].label \in Labels(G)
                     /\ i = MaxOf(Positions(S, S[i].label))
                     /\ M[i] = GeneratedWith(S[i].label)

\* with pruning off, the entry of TestAlpha is replaced at index 1, my-build
\* stays at index 2 and the entries of the subtest and of TestBeta follow
C18_Witness ==
    /\ Merged /\ ~inv.prune
    /\ inv.existing = <<AlphaEntryB, MyBuildEntry>>
    /\ Len(inv.generated) = 3
    /\ inv.merged = <<inv.generated[1], MyBuildEntry, inv.generated[2], inv.generated[3]>>

\* the white space of JSON
JsonWhitespace == {" ", "\t", "\n", "\r"}

\* the indices of data that are outside comments and hold no white space
\* between tokens
Significant(data, tags) ==
    {j \in DOMAIN data :
        /\ tags[j] \notin CommentTags
        /\ ~(tags[j] = "code" /\ data[j] \in JsonWhitespace)}

\* index i holds a comma outside strings and comments whose next significant
\* byte is a closer
TrailingComma(data, tags, i) ==
    /\ tags[i] = "code" /\ data[i] = ","
    /\ \E j \in Significant(data, tags) :
          /\ j > i
          /\ \A k \in Significant(data, tags) : ~(i < k /\ k < j)
          /\ tags[j] = "code" /\ data[j] \in {"}", "]"}

\* data without its comments and without its trailing commas
WithoutCommentsAndTrailingCommas(data) ==
    LET tags == TagsOf(data, TRUE)
    IN  KeepFrom(data, {i \in DOMAIN data :
                          tags[i] \notin CommentTags /\ ~TrailingComma(data, tags, i)}, 1)

(***************************************************************************)
(* C19: outside string literals normalizeRelaxedJSON deletes every //      *)
(* comment up to the end of its line and every block comment, and deletes  *)
(* every comma whose next byte that is no white space is } or ], also when *)
(* a comment stood between them; every other byte is kept, in order.       *)
(***************************************************************************)
C19_CommentsAndTrailingCommasDeleted ==
    (Normalized /\ relaxed.err = "") =>
        relaxed.out = WithoutCommentsAndTrailingCommas(relaxed.data)

\* a comma, a line comment and a closer: the line feed and the closer are left
C19_Witness ==
    /\ Normalized /\ relaxed.err = ""
    /\ relaxed.data = <<",", "/", "/", "\n", "}">>
    /\ relaxed.out = <<"\n", "}">>

\* a block comment between two letters, and a comma before a letter
C19_WitnessBlock ==
    /\ Normalized /\ relaxed.err = ""
    /\ relaxed.data = <<"/", "*", "*", "/", ",">>
    /\ relaxed.out = <<",">>

(***************************************************************************)
(* C20: normalizeRelaxedJSON returns an error, and no output, exactly when *)
(* the input ends inside a block comment or inside a string literal; an    *)
(* input that ends inside a line comment, or with every comment and string *)
(* closed, is not rejected.                                                *)
(***************************************************************************)
C20_ErrorIffUnterminated ==
    Normalized =>
        LET tags == TagsOf(relaxed.data, TRUE)
            openString == tags # <<>> /\ tags[Len(tags)] = "str"
            openBlock == tags # <<>> /\ tags[Len(tags)] = "block"
        IN  /\ relaxed.err # "" <=> (openString \/ openBlock)
            /\ relaxed.err # "" => relaxed.out = <<>>
            /\ openBlock => relaxed.err = "unterminated block comment in tasks file"
            /\ openString => relaxed.err = "unterminated string in tasks file"

\* the input ends inside a block comment
C20_Witness ==
    /\ Normalized
    /\ relaxed.data = <<"a", "/", "*", "*", "a">>
    /\ relaxed.err = "unterminated block comment in tasks file"
    /\ relaxed.out = <<>>

\* the input ends inside a string literal, after a backslash and a quote
C20_WitnessString ==
    /\ Normalized
    /\ relaxed.data = <<"\"", "a", "\\", "\"">>
    /\ relaxed.err = "unterminated string in tasks file"

\* the input ends inside a line comment that holds a quote and a block opening
C20_WitnessLine ==
    /\ Normalized
    /\ relaxed.data = <<"/", "/", "\"", "/", "*">>
    /\ relaxed.err = ""
    /\ relaxed.out = <<>>

(***************************************************************************)
(* Run-selectors and the names they select.                                *)
(***************************************************************************)
\* the selector the version without subtest support passes after -run
runPatternWithoutSubtests(testName) == <<"^">> \o QuoteMeta(testName) \o <<"$">>

\* the selector of a generated entry: its last argument
SelectorOf(e) == e.args[Len(e.args)]

\* the atoms of one selector element: \c is the character c, ^ and $ are
\* the ends of the text, an unescaped dot is any character
RECURSIVE Atoms(_)
Atoms(p) ==
    IF p = <<>> THEN <<>>
    ELSE IF Head(p) = "\\" /\ Len(p) >= 2
         THEN <<[kind |-> "lit", c |-> p[2]]>> \o Atoms(SubSeq(p, 3, Len(p)))
    ELSE IF Head(p) = "^" THEN <<[kind |-> "bol", c |-> ""]>> \o Atoms(Tail(p))
    ELSE IF Head(p) = "$" THEN <<[kind |-> "eol", c |-> ""]>> \o Atoms(Tail(p))
    ELSE IF Head(p) = "." THEN <<[kind |-> "any", c |-> ""]>> \o Atoms(Tail(p))
    ELSE <<[kind |-> "lit", c |-> Head(p)]>> \o Atoms(Tail(p))

\* the atoms match the text s from position pos on
RECURSIVE MatchAt(_, _, _)
MatchAt(atoms, s, pos) ==
    IF atoms = <<>> THEN TRUE
    ELSE LET a == Head(atoms)
         IN  CASE a.kind = "bol" -> pos = 1 /\ MatchAt(Tail(atoms), s, pos)
               [] a.kind = "eol" -> pos = Len(s) + 1 /\ MatchAt(Tail(atoms), s, pos)
               [] a.kind = "any" -> pos <= Len(s) /\ MatchAt(Tail(atoms), s, pos + 1)
               [] OTHER -> /\ pos <= Len(s)
                           /\ s[pos] = a.c
                           /\ MatchAt(Tail(atoms), s, pos + 1)

\* the element finds a match somewhere in the text, as an unanchored search
ElementMatches(p, s) == \E pos \in 1..(Len(s) + 1) : MatchAt(Atoms(p), s, pos)

\* go test -run: the selector is split at the slashes and every element is
\* searched in the name's segment of the same level
RunMatches(pattern, name) ==
    LET elements == SplitSlash(pattern, <<>>)
        levels == SplitSlash(name, <<>>)
    IN  \A i \in 1..Len(elements) :
            i <= Len(levels) => ElementMatches(elements[i], levels[i])

SameDepth(a, b) == Len(SplitSlash(a, <<>>)) = Len(SplitSlash(b, <<>>))

EntriesMade == inv.op = "entries"

\* C21: the selector of a generated entry is the name's segments, each escaped
\* and wrapped as ^segment$, rejoined with "/"; for a name without "/" it is
\* the selector of the version without subtest support; among the names of the
\* same depth it matches the name itself and no other
C21_SelectorMatchesExactPath ==
    EntriesMade =>
        LET name == inv.selected[1]
            pattern == SelectorOf(inv.generated[1])
            segments == SplitSlash(name, <<>>)
        IN  /\ pattern = JoinSlash([i \in 1..Len(segments) |->
                                      <<"^">> \o QuoteMeta(segments[i]) \o <<"$">>])
            /\ "/" \notin Range(name) => pattern = runPatternWithoutSubtests(name)
            /\ \A other \in TestNames :
                   SameDepth(other, name) => (RunMatches(pattern, other) <=> other = name)

\* the task of Outer/Inner with space: its selector matches that path and
\* rejects the longer subtest name and the longer parent name
C21_Witness ==
    /\ EntriesMade
    /\ inv.target = "tasks"
    /\ inv.selected = <<OuterInner>>
    /\ RunMatches(SelectorOf(inv.generated[1]), OuterInner)
    /\ ~RunMatches(SelectorOf(inv.generated[1]), OuterInnerMore)
    /\ ~RunMatches(SelectorOf(inv.generated[1]), XOuterInner)

\* the debug configuration of a name with a regexp metacharacter and no slash
C21_WitnessFlat ==
    /\ EntriesMade
    /\ inv.target = "debug"
    /\ inv.selected = <<<<"A", ".", "A">>>>
    /\ SelectorOf(inv.generated[1]) = <<"^", "A", "\\", ".", "A", "$">>
    /\ ~RunMatches(SelectorOf(inv.generated[1]), <<"A", "A", "A">>)

(***************************************************************************)
(* The arguments of the discovery subprocess.                              *)
(***************************************************************************)
\* the flags that control selector, output format, listing, timeout and
\* repeat count
ControlFlags ==
    {<<"-", "r", "u", "n">>, <<"-", "j", "s", "o", "n">>, <<"-", "l", "i", "s", "t">>,
     <<"-", "t", "i", "m", "e", "o", "u", "t">>, <<"-", "c", "o", "u", "n", "t">>}

\* of these, the flags that take a value
ValueFlags == ControlFlags \ {<<"-", "j", "s", "o", "n">>}

\* the token is one of the control flags, bare or in flag=value form
IsControl(tok) == \E f \in ControlFlags : tok = f \/ HasPrefix(tok, f \o <<"=">>)

IsFlag(tok) == tok # <<>> /\ Head(tok) = "-"

\* the caller's tokens without the control flags and without the value that
\* follows a bare control flag as a token of its own
RECURSIVE WithoutControls(_)
WithoutControls(extra) ==
    IF extra = <<>> THEN <<>>
    ELSE IF Head(extra) \in ValueFlags /\ Len(extra) >= 2 /\ ~IsFlag(extra[2])
         THEN WithoutControls(SubSeq(extra, 3, Len(extra)))
    ELSE IF IsControl(Head(extra)) THEN WithoutControls(Tail(extra))
    ELSE <<Head(extra)>> \o WithoutControls(Tail(extra))

DiscoveryStarted == bridge.pc # "idle"

\* what the subprocess receives between the bridge's own leading and trailing
\* arguments
CallerPart(args) == SubSeq(args, 6, Len(args) - 3)

\* C22: the arguments of the discovery subprocess hold, besides the bridge's
\* own, none of the flags -run, -json, -list, -timeout, -count (bare or as
\* flag=value) and no value the caller supplied for one of them as a separate
\* following token
C22_NoCallerControlRemains ==
    DiscoveryStarted =>
        /\ \A i \in DOMAIN CallerPart(bridge.args) : ~IsControl(CallerPart(bridge.args)[i])
        /\ IsSubsequence(CallerPart(bridge.args), WithoutControls(bridge.extra))

(***************************************************************************)
(* The static extractor.                                                   *)
(***************************************************************************)
\* a top-level function declaration without receiver whose name begins
\* with Test
IsTestFunction(d) == d.func /\ ~d.recv /\ HasPrefix(d.name, <<"T", "e", "s", "t">>)

MinOf(S) == CHOOSE x \in S : \A y \in S : x <= y

\* where the file first declares a test function of that name
FirstDeclared(decls, name) ==
    MinOf({k \in DOMAIN decls : IsTestFunction(decls[k]) /\ decls[k].name = name})

Extracted == sel.done /\ sel.src.parses /\ sel.listProc = ListFails /\ sel.out.err = ""

\* C23: the static extractor returns exactly the names of the file's top-level
\* function declarations without receiver whose name matches the pattern, each
\* once, in the order of their first declaration
C23_ExtractsTestFunctions ==
    Extracted =>
        LET decls == sel.src.decls
            names == sel.out.testsInFile
        IN  /\ Range(names) = {decls[k].name :
                                 k \in {k \in DOMAIN decls : IsTestFunction(decls[k])}}
            /\ \A i, j \in DOMAIN names : i # j => names[i] # names[j]
            /\ \A i, j \in DOMAIN names :
                   i < j => FirstDeclared(decls, names[i]) < FirstDeclared(decls, names[j])

\* TestAlpha, TestBeta and the method TestGamma give [TestAlpha, TestBeta]
C23_Witness ==
    /\ Extracted
    /\ sel.src.decls = <<FuncDecl(TestAlpha), FuncDecl(TestBeta), MethodDecl(TestGamma)>>
    /\ sel.out.testsInFile = <<TestAlpha, TestBeta>>

\* a test declared twice around a variable is returned once, at its first place
C23_WitnessDuplicate ==
    /\ Extracted
    /\ sel.src.decls = <<FuncDecl(TestBeta), OtherDecl(TestOld), FuncDecl(TestBeta)>>
    /\ sel.out.testsInFile = <<TestBeta>>

(***************************************************************************)
(* The documents on disk over sequences of invocations.                    *)
(***************************************************************************)
\* the entries of the tasks document and of the debug document
TasksDocument == readTasks(tasksFile).tasks
DebugDocument == readTasks(debugFile).tasks

\* the document the last invocation worked on
TargetDocument == IF inv.target = "tasks" THEN TasksDocument ELSE DebugDocument

\* the last invocation was a generate with pruning that wrote its document
WrotePruned == inv.op = "generate" /\ inv.prune /\ inv.wrote

\* C24: after a generate invocation with pruning has written the document,
\* in any sequence of invocations, the marker-carrying entries of the
\* document are exactly the entries that invocation generated; entries
\* generated earlier for another file or for tests no longer selected are gone
C24_MarkedAreLatestGenerated ==
    WrotePruned =>
        /\ Range(Marked(TargetDocument)) = Range(inv.generated)
        /\ Len(Marked(TargetDocument)) = Len(inv.generated)
        /\ \A i \in DOMAIN TargetDocument :
               CarriesMarker(TargetDocument[i]) =>
                   TargetDocument[i].name \in Range(inv.selected)

\* a second generate for b_test.go on the document the first wrote for
\* a_test.go
C24_Witness ==
    /\ WrotePruned
    /\ inv.n = 2
    /\ inv.target = "tasks"
    /\ AlphaEntryA \in Range(inv.existing)
    /\ inv.generated # <<>>
    /\ \A i \in DOMAIN inv.generated : inv.generated[i].file = FileB
    /\ AlphaEntryA \notin Range(TasksDocument)

\* a second generate for the same file that no longer selects the subtest
C24_WitnessAbsent ==
    /\ WrotePruned
    /\ inv.n = 2
    /\ \E i \in DOMAIN inv.existing :
           /\ CarriesMarker(inv.existing[i])
           /\ inv.existing[i].name = TestAlphaCase1
    /\ inv.selected = <<TestAlpha>>
    /\ Len(Marked(TargetDocument)) = 1

\* C25: from an absent or empty document or one whose entries have pairwise
\* distinct labels, after any sequence of generate and clear invocations with
\* either pruning setting no two entries of a document share a label
C25_LabelsStayDistinct ==
    /\ DistinctLabels(TasksDocument)
    /\ DistinctLabels(DebugDocument)

\* a generate without pruning overwrote the entry an earlier generate wrote,
\* next to a hand-written entry
C25_Witness ==
    /\ inv.n = 2
    /\ inv.op = "generate" /\ ~inv.prune /\ inv.wrote
    /\ inv.stats.Updated > 0
    /\ Marked(inv.existing) # <<>>
    /\ MyBuildEntry \in Range(TargetDocument)
    /\ Len(TargetDocument) >= 2

\* a clear after a generate on a hand-edited document
C25_WitnessClear ==
    /\ inv.n = 2
    /\ inv.op = "clear" /\ inv.wrote
    /\ inv.stats.Removed > 0
    /\ TasksDocument # <<>>

====
